---- MODULE Spec2Model ----
(***************************************************************************)
(* Client stream consumer of the Speak chat app: the useSSE hook (three    *)
(* versions: retry count in a ref, retry count in React state, audio       *)
(* upload), the ChatContext reducer it drives, and the input gating of     *)
(* App.  Network, server and timers are the environment.                   *)
(***************************************************************************)
EXTENDS Integers, Sequences, FiniteSets, TLC

\* ---------------------------------------------------------------- bounds
MaxTurns == 2
MaxSteps == 2
MaxFailures == 5
MaxEvents == 2
MaxChunks == 1
MaxWords == 2
MaxIssues == 2
MaxTyped == 2        \* characters typed into the message input
MaxInputTurns == 1   \* Turns submitted through the modelled message input
MaxSessions == 2     \* clicks that start a recording
MaxDisconnectTurns == 1  \* Turns submitted where disconnect is modelled
MaxHistoryTurns == 1     \* Turns submitted where the history fetch is modelled
MaxMessages == 3         \* messages added where the reducer is modelled alone
MaxPlays == 3            \* playAudio calls where playback is modelled alone
MaxRecognitions == 2     \* SpeechRecognition objects created by startRecording
MaxResults == 3          \* result events delivered by the recognitions

\* ------------------------------------------------------ program constants
maxReconnectAttempts == 3
reconnectBaseDelay == 1000

Variants == {"ref", "state", "audio"}
Texts == {"hi"}
Replies == {"r1"}
Placeholder == "Transcribing..."
FallbackExplanation == "Grammar check unavailable for this message."
ThreadIds == {"th1"}
NullThread == "null"
NullId == 0

VARIABLES
  variant,               \* which version of the hook is mounted
  messages,              \* ChatState.messages
  threadId,              \* ChatState.threadId
  threadIdRef,           \* the thread id the hook's request code reads
  threadIdSetAt,         \* transport failures seen when threadId last changed
  loading,               \* ChatState.loading
  error,                 \* ChatState.error
  currentMessageIdRef,   \* id of the pending assistant message, or NullId
  lastUserMessageIdRef,  \* id of the user message tracked as most recent
  isCompleteHandledRef,
  reconnectAttemptsRef,
  reconnectTimeoutRef,   \* id of the timer held by the ref, or NullId
  isConnected,
  reconnectAttempts,     \* the React state returned by the hook
  requests,              \* fetches in flight: request id -> record
  timers,                \* pending setTimeout callbacks
  nextId,                \* next message id handed out by generateMessageId
  turns,                 \* number of submissions made so far
  openTurns,             \* Turns submitted whose terminal event is not handled
  nReq,                  \* Turn -> number of requests issued for it
  steps,                 \* events delivered so far
  failures,              \* transport failures injected so far
  localStorage,          \* the value stored under 'speak_chat_thread_id'
  mounted,               \* ChatProvider's mount effect has run
  clearedTurns,          \* Turns submitted before the last clearThread
  playback,              \* useAudioPlayback: isPlaying, error, decodes pending
  stream,                \* read loop: the body of the response, as tokens
  pos,                   \* read loop: tokens handed out by reader.read()
  buffer,                \* read loop: the incomplete last line
  currentEventType,
  currentData,
  dispatched,            \* read loop: the (type, payload) pairs dispatched
  done,                  \* read loop: reader.read() has reported done
  voice,                 \* server: the Turn was submitted as audio
  declared,              \* server: the proceed set in declaration order
  verdict,               \* server: output of the entry node, or "none"
  nodeState,             \* server: node -> idle, running, ok or failed
  records,               \* server: node execution records, completion order
  outStream,             \* server: the events published so far
  view,                  \* rendering: a message, where its correction came
                         \* from, and what ChatMessage presents for it
  inputText,             \* MessageInput: text, the content of the textarea
  rejected,              \* MessageInput: the last handleSend returned early
  isRecording,           \* useAudioRecorder: the React state
  audioError,            \* useAudioRecorder: error
  mediaRecorders,        \* the MediaRecorder objects created, one per stream
  mediaRecorderRef,      \* index of the recorder held by the ref, or NullId
  streamRef,             \* index of the stream held by the ref, or NullId
  audioChunksRef,        \* chunks collected, each named by its recorder
  pendingMedia,          \* getUserMedia calls not yet settled
  resolveTimers,         \* setTimeout(0) callbacks of stopRecording, by recorder
  sentBlobs,             \* the blobs handed to onSendAudio so far
  disconnectedAt,        \* submissions made when disconnect() last returned
  historyFetch,          \* ChatProvider: the history fetch of the mount effect
  sourceNodes,           \* useAudioPlayback: the source nodes created so far
  sourceNodeRef,         \* index of the node held by the ref, or NullId
  srIsRecording,         \* useSpeechRecognition: isRecording
  srTranscript,          \* useSpeechRecognition: transcript
  srError,               \* useSpeechRecognition: error
  recognitions,          \* the SpeechRecognition objects created so far
  recognitionRef,        \* index of the recognition held by the ref, or NullId
  speechTimers,          \* the setTimeout calls of the hook, in order
  timeoutRef,            \* index of the timer held by the ref, or NullId
  results                \* result events delivered so far

pvars == <<stream, pos, buffer, currentEventType, currentData, dispatched,
           done>>

hvars == <<variant, messages, threadId, threadIdRef, threadIdSetAt, loading,
           error, currentMessageIdRef, lastUserMessageIdRef, isCompleteHandledRef, reconnectAttemptsRef,
           reconnectTimeoutRef, isConnected, reconnectAttempts, requests,
           timers, nextId, turns, openTurns, nReq, steps, failures, localStorage,
           mounted, clearedTurns>>

cvars == <<hvars, playback>>

svars == <<voice, declared, verdict, nodeState, records, outStream>>

rvars == <<isRecording, audioError, mediaRecorders, mediaRecorderRef,
           streamRef, audioChunksRef, pendingMedia, resolveTimers, sentBlobs>>

avars == <<sourceNodes, sourceNodeRef>>

spvars == <<srIsRecording, srTranscript, srError, recognitions, recognitionRef,
            speechTimers, timeoutRef, results>>

uvars == <<view, inputText, rejected, rvars, disconnectedAt, historyFetch, avars, spvars>>

vars == <<cvars, pvars, svars, uvars>>

NullError == [msg |-> "null", delay |-> 0]

RECURSIVE Pow2(_)
Pow2(n) == IF n = 0 THEN 1 ELSE 2 * Pow2(n - 1)

\* The state the handlers read and write, as one record.
S == [messages |-> messages, threadId |-> threadId,
      threadIdRef |-> threadIdRef, loading |-> loading,
      error |-> error, currentMessageIdRef |-> currentMessageIdRef,
      lastUserMessageIdRef |-> lastUserMessageIdRef,
      isCompleteHandledRef |-> isCompleteHandledRef,
      reconnectAttemptsRef |-> reconnectAttemptsRef,
      reconnectTimeoutRef |-> reconnectTimeoutRef,
      isConnected |-> isConnected, reconnectAttempts |-> reconnectAttempts,
      requests |-> requests, timers |-> timers, nextId |-> nextId,
      openTurns |-> openTurns, nReq |-> nReq, localStorage |-> localStorage,
      failures |-> failures]

Commit(s) ==
  /\ messages' = s.messages
  /\ threadId' = s.threadId
  /\ threadIdRef' = s.threadIdRef
  /\ threadIdSetAt' = IF s.threadId # threadId THEN failures ELSE threadIdSetAt
  /\ loading' = s.loading
  /\ error' = s.error
  /\ currentMessageIdRef' = s.currentMessageIdRef
  /\ lastUserMessageIdRef' = s.lastUserMessageIdRef
  /\ isCompleteHandledRef' = s.isCompleteHandledRef
  /\ reconnectAttemptsRef' = s.reconnectAttemptsRef
  /\ reconnectTimeoutRef' = s.reconnectTimeoutRef
  /\ isConnected' = s.isConnected
  /\ reconnectAttempts' = s.reconnectAttempts
  /\ requests' = s.requests
  /\ timers' = s.timers
  /\ nextId' = s.nextId
  /\ openTurns' = s.openTurns
  /\ nReq' = s.nReq
  /\ localStorage' = s.localStorage

\* A handle not in use: the least positive integer outside `used`.
Fresh(used) == CHOOSE i \in 1..(Cardinality(used) + 1) :
                 i \notin used /\ \A j \in 1..(i - 1) : j \in used

\* The handle setTimeout returns, and the identity of a new fetch.
NewTimerId(s) == Fresh({t.id : t \in s.timers})
NewReqId(s) == Fresh(DOMAIN s.requests)

\* ------------------------------------------------- ChatContext (reducer)

addMessage_Prepend(s, role, content, turn) ==
  [s EXCEPT !.messages = <<[id |-> s.nextId, role |-> role,
                            content |-> content, correction |-> <<>>,
                            turn |-> turn]>> \o @,
            !.nextId = @ + 1]

\* ADD_MESSAGE through addMessage: a fresh id, appended at the end.
addMessage(s, role, content, turn) ==
  [s EXCEPT !.messages = Append(@, [id |-> s.nextId, role |-> role,
                                    content |-> content, correction |-> <<>>,
                                    turn |-> turn]),
            !.nextId = @ + 1]

\* UPDATE_MESSAGE_CONTENT
updateMessageContent(s, messageId, content) ==
  [s EXCEPT !.messages =
     [i \in DOMAIN @ |-> IF @[i].id = messageId
                         THEN [@[i] EXCEPT !.content = content] ELSE @[i]]]

attachCorrection_Append(s, messageId, correction) ==
  [s EXCEPT !.messages =
     [i \in DOMAIN @ |-> IF @[i].id = messageId
                         THEN [@[i] EXCEPT !.correction = Append(@, correction)]
                         ELSE @[i]]]

\* ATTACH_CORRECTION
attachCorrection(s, messageId, correction) ==
  [s EXCEPT !.messages =
     [i \in DOMAIN @ |-> IF @[i].id = messageId
                         THEN [@[i] EXCEPT !.correction = <<correction>>]
                         ELSE @[i]]]

\* setThreadId: store the id, then SET_THREAD_ID.
setThreadId(s, tid) == [s EXCEPT !.localStorage = tid, !.threadId = tid]

clearThread_KeepStorage(s) ==
  [s EXCEPT !.messages = <<>>, !.threadId = NullThread,
            !.loading = [chat |-> FALSE, correction |-> FALSE],
            !.error = NullError]

\* clearThread: remove the stored id, then CLEAR_THREAD (back to initialState).
clearThread(s) ==
  [s EXCEPT !.localStorage = NullThread,
            !.messages = <<>>,
            !.threadId = NullThread,
            !.loading = [chat |-> FALSE, correction |-> FALSE],
            !.error = NullError]

setLoading(s, key, value) == [s EXCEPT !.loading[key] = value]

setError(s, e) == [s EXCEPT !.error = e]

\* App: the message input is disabled while either flag is set.
isInputDisabled == loading.chat \/ loading.correction

\* ------------------------------------------------------------ useSSE hook

\* cleanup: eventSourceRef is never assigned, so no connection is closed and
\* the fetch in flight is not aborted; only the timer held by the ref is
\* cleared.
cleanup(s) ==
  [s EXCEPT !.timers = {t \in @ : t.id # s.reconnectTimeoutRef},
            !.reconnectTimeoutRef = NullId,
            !.isConnected = FALSE]

\* onComplete of the ref and audio versions.
onComplete(s) ==
  IF s.isCompleteHandledRef THEN s
  ELSE cleanup([s EXCEPT !.isCompleteHandledRef = TRUE,
                         !.loading.chat = FALSE,
                         !.loading.correction = FALSE,
                         !.currentMessageIdRef = NullId,
                         !.reconnectAttemptsRef = 0,
                         !.reconnectAttempts = 0])

\* handleCompleteEvent of the state version.
handleCompleteEvent(s) ==
  IF s.isCompleteHandledRef THEN s
  ELSE cleanup([s EXCEPT !.isCompleteHandledRef = TRUE,
                         !.loading.chat = FALSE,
                         !.loading.correction = FALSE,
                         !.currentMessageIdRef = NullId,
                         !.reconnectAttempts = 0])

onThreadId(s, tid) == setThreadId(s, tid)

\* onChatResponse / handleChatResponseEvent: create the assistant message, or
\* update the one the ref points to.
onChatResponse(s, content, turn) ==
  LET s1 == IF s.currentMessageIdRef = NullId
            THEN [addMessage(s, "assistant", content, turn)
                    EXCEPT !.currentMessageIdRef = s.nextId]
            ELSE updateMessageContent(s, s.currentMessageIdRef, content)
  IN setLoading(s1, "chat", FALSE)

onCorrection_AttachToLast(s, correction) ==
  LET s1 == IF s.messages # <<>>
            THEN attachCorrection(s, s.messages[Len(s.messages)].id,
                                  correction)
            ELSE s
  IN setLoading(s1, "correction", FALSE)

\* onCorrection / handleCorrectionEvent
onCorrection(s, correction) ==
  LET s1 == IF s.lastUserMessageIdRef # NullId
            THEN attachCorrection(s, s.lastUserMessageIdRef, correction)
            ELSE s
  IN setLoading(s1, "correction", FALSE)

\* onTranscription of the audio version.
onTranscription(s, text) ==
  IF s.lastUserMessageIdRef # NullId
  THEN updateMessageContent(s, s.lastUserMessageIdRef, text)
  ELSE s

FallbackCorrection ==
  [original |-> "", corrected |-> "", issues |-> <<>>,
   explanation |-> FallbackExplanation, turn |-> 0]

\* onError with the chat branch stopping both loading flags.
onError_ChatStopsAll(s, node, message) ==
  IF node = "correction"
  THEN LET s1 == IF s.lastUserMessageIdRef # NullId
                 THEN attachCorrection(s, s.lastUserMessageIdRef,
                                       FallbackCorrection)
                 ELSE s
       IN setLoading(s1, "correction", FALSE)
  ELSE setLoading(setLoading(setError(s, [msg |-> message, delay |-> 0]),
                             "chat", FALSE), "correction", FALSE)

\* onError of the ref and audio versions.
onError(s, node, message) ==
  IF node = "chat"
  THEN setLoading(setError(s, [msg |-> message, delay |-> 0]), "chat", FALSE)
  ELSE IF node = "correction"
  THEN LET s1 == IF s.lastUserMessageIdRef # NullId
                 THEN attachCorrection(s, s.lastUserMessageIdRef,
                                       FallbackCorrection)
                 ELSE s
       IN setLoading(s1, "correction", FALSE)
  ELSE setLoading(setLoading(setError(s, [msg |-> message, delay |-> 0]),
                             "chat", FALSE), "correction", FALSE)

\* handleErrorEvent of the state version: the error is set for every node.
handleErrorEvent(s, node, message) ==
  LET s1 == setError(s, [msg |-> message, delay |-> 0])
  IN IF node = "chat" THEN setLoading(s1, "chat", FALSE)
     ELSE IF node = "correction" THEN setLoading(s1, "correction", FALSE)
     ELSE setLoading(setLoading(s1, "chat", FALSE), "correction", FALSE)

\* executeRequest / executeAudioRequest up to the fetch call.  ra is the
\* reconnectAttempts value the closure of the state version captured.
executeRequest(s, text, turn, ra) ==
  LET s1 == cleanup([s EXCEPT !.isCompleteHandledRef = FALSE])
      s2 == [setError(s1, NullError) EXCEPT !.currentMessageIdRef = NullId]
      s3 == setLoading(setLoading(s2, "chat", TRUE), "correction", TRUE)
  IN [s3 EXCEPT !.requests = [r \in DOMAIN @ \cup {NewReqId(s)} |->
                    IF r = NewReqId(s)
                    THEN [turn |-> turn, text |-> text, ra |-> ra,
                          thread_id |-> s.threadIdRef, status |-> "fetching",
                          sent |-> {}, completed |-> FALSE]
                    ELSE @[r]],
                 !.nReq[turn] = @ + 1]

\* sendMessage: add the user message, track it, start the request.
sendMessage(s, text, turn) ==
  LET s1 == addMessage(s, "user", text, turn)
      s2 == [s1 EXCEPT !.lastUserMessageIdRef = s.nextId]
  IN executeRequest(s2, text, turn, s.reconnectAttempts)

\* sendAudio: add the placeholder user message, track it, start the upload.
sendAudio(s, turn) ==
  LET s1 == addMessage(s, "user", Placeholder, turn)
      s2 == [s1 EXCEPT !.lastUserMessageIdRef = s.nextId]
  IN executeRequest(s2, "blob", turn, 0)

\* .catch of executeRequest, ref version: the retry count is the ref.
catchRef(s, r) ==
  LET s1 == [s EXCEPT !.isConnected = FALSE]
      delay == reconnectBaseDelay * Pow2(s.reconnectAttemptsRef)
  IN IF s.reconnectAttemptsRef < maxReconnectAttempts
     THEN [setError(s1, [msg |-> "Connection lost", delay |-> delay])
             EXCEPT !.timers = @ \cup {[id |-> NewTimerId(s), text |-> r.text,
                                        turn |-> r.turn, delay |-> delay,
                                        k |-> s.nReq[r.turn] - 1,
                                        seq |-> s.failures]},
                    !.reconnectTimeoutRef = NewTimerId(s)]
     ELSE [onError(s1, "unknown", "Connection failed")
             EXCEPT !.reconnectAttemptsRef = 0,
                    !.reconnectAttempts = 0,
                    !.openTurns = @ \ {r.turn}]

\* .catch of executeRequest, state version: the retry count is the value of
\* reconnectAttempts the request's closure captured.
catchState(s, r) ==
  LET s1 == [s EXCEPT !.isConnected = FALSE]
      delay == reconnectBaseDelay * Pow2(r.ra)
  IN IF r.ra < maxReconnectAttempts
     THEN [setError(s1, [msg |-> "Connection lost", delay |-> delay])
             EXCEPT !.timers = @ \cup {[id |-> NewTimerId(s), text |-> r.text,
                                        turn |-> r.turn, delay |-> delay,
                                        k |-> s.nReq[r.turn] - 1,
                                        seq |-> s.failures]},
                    !.reconnectTimeoutRef = NewTimerId(s)]
     ELSE [handleErrorEvent(s1, "unknown", "Connection failed")
             EXCEPT !.reconnectAttempts = 0,
                    !.openTurns = @ \ {r.turn}]

catchAudio_KeepLoading(s, r) ==
  [setError([s EXCEPT !.isConnected = FALSE],
            [msg |-> "Failed to upload audio", delay |-> 0])
     EXCEPT !.reconnectAttemptsRef = 0,
            !.reconnectAttempts = 0,
            !.openTurns = @ \ {r.turn}]

\* .catch of executeAudioRequest: no retry.
catchAudio(s, r) ==
  [onError([s EXCEPT !.isConnected = FALSE], "unknown",
           "Failed to upload audio")
     EXCEPT !.reconnectAttemptsRef = 0,
            !.reconnectAttempts = 0,
            !.openTurns = @ \ {r.turn}]

\* retryRef with the retry going through sendMessage again.
retryRef_Resend(s, t) ==
  sendMessage([s EXCEPT !.reconnectAttemptsRef = @ + 1,
                        !.reconnectAttempts = s.reconnectAttemptsRef + 1],
              t.text, t.turn)

\* The retry timer's callback, ref version.
retryRef(s, t) ==
  executeRequest([s EXCEPT !.reconnectAttemptsRef = @ + 1,
                           !.reconnectAttempts = s.reconnectAttemptsRef + 1],
                 t.text, t.turn, 0)

\* The retry timer's callback, state version: executeRequestRef still holds
\* the closure of the render before the increment.
retryState(s, t) ==
  executeRequest([s EXCEPT !.reconnectAttempts = @ + 1],
                 t.text, t.turn, s.reconnectAttempts)

\* The correction the server computes for the text of request r.
ServerCorrection(r) ==
  [original |-> r.text, corrected |-> r.text, issues |-> <<"issue">>,
   explanation |-> "ok", turn |-> r.turn]

\* The events a response can carry.
Events(v) ==
  {[type |-> "thread_id", arg |-> x] : x \in ThreadIds}
  \cup {[type |-> "chat_response", arg |-> x] : x \in Replies}
  \cup {[type |-> "correction", arg |-> ""]}
  \cup {[type |-> "error", arg |-> x] : x \in {"chat", "correction", "unknown"}}
  \cup {[type |-> "complete", arg |-> ""]}
  \cup (IF v = "audio"
        THEN {[type |-> "transcription", arg |-> x] : x \in Texts}
             \cup {[type |-> "audio_chunk", arg |-> ""]}
        ELSE {})

\* The branch of the Turn an event reports on.
Branch(ev) ==
  CASE ev.type = "chat_response" -> "reply"
    [] ev.type = "audio_chunk" -> "reply"
    [] ev.type = "correction" -> "correction"
    [] ev.type = "error" /\ ev.arg = "chat" -> "reply"
    [] ev.type = "error" /\ ev.arg = "correction" -> "correction"
    [] ev.type = "error" -> "general"
    [] OTHER -> "none"

\* What the server may write next into the response of request r: the thread
\* id and the transcription come first, the reply branch reports a failure at
\* most once and before any reply, the correction branch reports once, a
\* general failure ends the branches, complete is written once.  Branch events
\* may still follow complete.
CanSend(r, ev) ==
  CASE ev.type \in {"thread_id", "transcription"} ->
         r.sent = {} /\ ~r.completed
    [] ev.type = "complete" -> ~r.completed
    [] ev.type = "chat_response" -> "general" \notin r.sent
    [] ev.type = "audio_chunk" ->
         "reply" \in r.sent /\ "general" \notin r.sent
    [] OTHER -> Branch(ev) \notin r.sent /\ "general" \notin r.sent

\* switch (currentEventType) of the ref version.
dispatchRef(s, r, ev) ==
  CASE ev.type = "thread_id" -> onThreadId(s, ev.arg)
    [] ev.type = "chat_response" -> onChatResponse(s, ev.arg, r.turn)
    [] ev.type = "correction" -> onCorrection(s, ServerCorrection(r))
    [] ev.type = "error" -> onError(s, ev.arg, ev.arg)
    [] ev.type = "complete" -> onComplete(s)
    [] OTHER -> s

\* switch (currentEventType) of the state version.
dispatchState(s, r, ev) ==
  CASE ev.type = "thread_id" -> onThreadId(s, ev.arg)
    [] ev.type = "chat_response" -> onChatResponse(s, ev.arg, r.turn)
    [] ev.type = "correction" -> onCorrection(s, ServerCorrection(r))
    [] ev.type = "error" -> handleErrorEvent(s, ev.arg, ev.arg)
    [] ev.type = "complete" -> handleCompleteEvent(s)
    [] OTHER -> s

onAudioChunk_SurfaceError(s, r) ==
  setError(s, [msg |-> "Failed to decode audio", delay |-> 0])

\* App's onAudioChunk: playAudio is called and not awaited; no chat state is
\* touched and the read loop goes on.
onAudioChunk(s, r) == s

\* playAudio up to its first await: stopAudio, setError(null), then either no
\* audio context (the error is set and nothing is decoded) or a decode starts.
playAudio(p, context) ==
  IF context
  THEN [p EXCEPT !.isPlaying = FALSE, !.error = "null",
                 !.decoding = @ + 1, !.chunks = @ + 1]
  ELSE [p EXCEPT !.isPlaying = FALSE,
                 !.error = "Failed to initialize audio context",
                 !.chunks = @ + 1]

\* switch (currentEventType) of the audio version.
dispatchAudio(s, r, ev) ==
  CASE ev.type = "thread_id" -> onThreadId(s, ev.arg)
    [] ev.type = "transcription" -> onTranscription(s, ev.arg)
    [] ev.type = "chat_response" -> onChatResponse(s, ev.arg, r.turn)
    [] ev.type = "correction" -> onCorrection(s, ServerCorrection(r))
    [] ev.type = "audio_chunk" -> onAudioChunk(s, r)
    [] ev.type = "error" -> onError(s, ev.arg, ev.arg)
    [] ev.type = "complete" -> onComplete(s)
    [] OTHER -> s

Dispatch(s, r, ev) ==
  IF variant = "ref" THEN dispatchRef(s, r, ev)
  ELSE IF variant = "state" THEN dispatchState(s, r, ev)
  ELSE dispatchAudio(s, r, ev)

readDone_BreakOnly(s) == s

\* if (done) { onComplete(); break }
readDone(s) ==
  IF variant = "state" THEN handleCompleteEvent(s) ELSE onComplete(s)

Catch(s, r) ==
  IF variant = "ref" THEN catchRef(s, r)
  ELSE IF variant = "state" THEN catchState(s, r)
  ELSE catchAudio(s, r)

Retry(s, t) ==
  IF variant = "state" THEN retryState(s, t) ELSE retryRef(s, t)

Drop(s, rid) ==
  [s EXCEPT !.requests = [x \in DOMAIN @ \ {rid} |-> @[x]]]

\* ------------------------------------------------------------------ model

ChatInit ==
  /\ messages = <<>>
  /\ threadId = NullThread
  /\ threadIdRef = NullThread
  /\ threadIdSetAt = 0
  /\ loading = [chat |-> FALSE, correction |-> FALSE]
  /\ error = NullError
  /\ currentMessageIdRef = NullId
  /\ lastUserMessageIdRef = NullId
  /\ isCompleteHandledRef = FALSE
  /\ reconnectAttemptsRef = 0
  /\ reconnectTimeoutRef = NullId
  /\ isConnected = FALSE
  /\ reconnectAttempts = 0
  /\ requests = <<>>
  /\ timers = {}
  /\ nextId = 1
  /\ turns = 0
  /\ openTurns = {}
  /\ nReq = [t \in 1..MaxTurns |-> 0]
  /\ steps = 0
  /\ failures = 0
  /\ localStorage \in {NullThread} \cup ThreadIds
  /\ mounted = FALSE
  /\ clearedTurns = {}
  /\ playback = [isPlaying |-> FALSE, error |-> "null", decoding |-> 0,
                 chunks |-> 0]

\* The nodes of the workflow after the entry node.
Nodes == {"generate", "analyze", "divert", "synthesize"}

\* No Turn is running on the server.
ServerIdle ==
  /\ voice = FALSE
  /\ declared = <<"generate", "analyze">>
  /\ verdict = "none"
  /\ nodeState = [n \in Nodes |-> "idle"]
  /\ records = <<>>
  /\ outStream = <<>>

\* No message is being rendered.
\* useAudioRecorder as constructed: nothing recorded, nothing pending.
RecorderIdle ==
  /\ isRecording = FALSE
  /\ audioError = "null"
  /\ mediaRecorders = <<>>
  /\ mediaRecorderRef = NullId
  /\ streamRef = NullId
  /\ audioChunksRef = <<>>
  /\ pendingMedia = 0
  /\ resolveTimers = <<>>
  /\ sentBlobs = <<>>

\* disconnect() has not been called.
NotDisconnected == 0 - 1

\* useSpeechRecognition before the first startRecording.
SpeechIdle ==
  /\ srIsRecording = FALSE
  /\ srTranscript = ""
  /\ srError = ""
  /\ recognitions = <<>>
  /\ recognitionRef = NullId
  /\ speechTimers = <<>>
  /\ timeoutRef = NullId
  /\ results = 0

InputIdle ==
  /\ inputText = <<>>
  /\ rejected = FALSE
  /\ RecorderIdle
  /\ disconnectedAt = NotDisconnected
  /\ historyFetch = "none"
  /\ sourceNodes = <<>>
  /\ sourceNodeRef = NullId
  /\ SpeechIdle

UiIdle ==
  /\ view = [role |-> "user", correction |-> <<>>, origin |-> "none",
             label |-> "none"]
  /\ InputIdle

\* No response body is being parsed token by token.
ParseIdle ==
  /\ stream = <<>>
  /\ pos = 0
  /\ buffer = <<>>
  /\ currentEventType = <<>>
  /\ currentData = <<>>
  /\ dispatched = <<>>
  /\ done = FALSE

Init ==
  /\ variant \in Variants
  /\ ChatInit
  /\ ParseIdle
  /\ ServerIdle
  /\ UiIdle

\* ChatProvider's mount effect: a stored thread id goes into the state.
Mount ==
  /\ ~mounted
  /\ mounted' = TRUE
  /\ Commit(IF localStorage # NullThread
            THEN [S EXCEPT !.threadId = localStorage] ELSE S)
  /\ UNCHANGED <<variant, turns, steps, failures, clearedTurns, pvars, svars, uvars, playback>>

\* The effect that follows a render with a new thread id: threadIdRef (ref and
\* audio versions) or the executeRequest closure held by executeRequestRef
\* (state version) takes the thread id of the state.
ThreadIdEffect ==
  /\ threadIdRef # threadId
  /\ Commit([S EXCEPT !.threadIdRef = threadId])
  /\ UNCHANGED <<variant, turns, steps, failures, mounted, clearedTurns, pvars, svars, uvars, playback>>

\* The user confirms New Conversation; the button is disabled while the
\* message list is empty.  A user event finds the effects of the last render
\* done.
ClearThread ==
  /\ mounted
  /\ threadIdRef = threadId
  /\ messages # <<>>
  /\ Commit(clearThread(S))
  /\ clearedTurns' = 1..turns
  /\ UNCHANGED <<variant, turns, steps, failures, mounted, pvars, svars, uvars, playback>>

\* The user sends a text through the enabled message input.
SendMessage(text) ==
  /\ mounted
  /\ threadIdRef = threadId
  /\ variant \in {"ref", "state"}
  /\ ~isInputDisabled
  /\ turns < MaxTurns
  /\ Commit(sendMessage([S EXCEPT !.openTurns = @ \cup {turns + 1}],
                        text, turns + 1))
  /\ turns' = turns + 1
  /\ UNCHANGED <<variant, steps, failures, mounted, clearedTurns, pvars, svars, uvars, playback>>

\* The user stops a recording through the enabled microphone button.
SendAudio ==
  /\ mounted
  /\ threadIdRef = threadId
  /\ variant = "audio"
  /\ ~isInputDisabled
  /\ turns < MaxTurns
  /\ Commit(sendAudio([S EXCEPT !.openTurns = @ \cup {turns + 1}],
                      turns + 1))
  /\ turns' = turns + 1
  /\ UNCHANGED <<variant, steps, failures, mounted, clearedTurns, pvars, svars, uvars, playback>>

\* fetch resolves with an ok response that has a body.
FetchOk(rid) ==
  /\ rid \in DOMAIN requests
  /\ requests[rid].status = "fetching"
  /\ Commit([S EXCEPT !.isConnected = TRUE,
                      !.requests[rid].status = "reading"])
  /\ UNCHANGED <<variant, turns, steps, failures, mounted, clearedTurns, pvars, svars, uvars, playback>>

\* fetch rejects, or the response is not ok, or it has no body.
FetchFail(rid) ==
  /\ rid \in DOMAIN requests
  /\ requests[rid].status = "fetching"
  /\ failures < MaxFailures
  /\ Commit(Catch(Drop(S, rid), requests[rid]))
  /\ failures' = failures + 1
  /\ UNCHANGED <<variant, turns, steps, mounted, clearedTurns, pvars, svars, uvars, playback>>

\* The read loop assembles one event of the response and dispatches it.  An
\* audio_chunk also starts playAudio, with or without an audio context.
Deliver(rid, ev) ==
  /\ rid \in DOMAIN requests
  /\ requests[rid].status = "reading"
  /\ IF ev.type = "audio_chunk"
     THEN /\ playback.chunks < MaxChunks
          /\ \E context \in BOOLEAN : playback' = playAudio(playback, context)
          /\ steps' = steps
     ELSE /\ steps < MaxSteps
          /\ playback' = playback
          /\ steps' = steps + 1
  /\ CanSend(requests[rid], ev)
  /\ LET r == requests[rid]
         s1 == Dispatch(S, r, ev)
     IN Commit([s1 EXCEPT !.requests[rid].sent =
                             IF Branch(ev) = "none" THEN @
                             ELSE @ \cup {Branch(ev)},
                          !.requests[rid].completed =
                             @ \/ ev.type = "complete",
                          !.openTurns = IF ev.type = "complete"
                                        THEN @ \ {r.turn} ELSE @])
  /\ UNCHANGED <<variant, turns, failures, mounted, clearedTurns, pvars, svars, uvars>>

\* reader.read() reports done.
ReadDone(rid) ==
  /\ rid \in DOMAIN requests
  /\ requests[rid].status = "reading"
  /\ Commit([readDone(Drop(S, rid))
               EXCEPT !.openTurns = @ \ {requests[rid].turn}])
  /\ UNCHANGED <<variant, turns, steps, failures, mounted, clearedTurns, pvars, svars, uvars, playback>>

\* reader.read() rejects.
ReadError(rid) ==
  /\ rid \in DOMAIN requests
  /\ requests[rid].status = "reading"
  /\ failures < MaxFailures
  /\ Commit(Catch(Drop(S, rid), requests[rid]))
  /\ failures' = failures + 1
  /\ UNCHANGED <<variant, turns, steps, mounted, clearedTurns, pvars, svars, uvars, playback>>

\* decodeAudioData resolves: the source node starts.
DecodeOk ==
  /\ playback.decoding > 0
  /\ playback' = [playback EXCEPT !.decoding = @ - 1, !.isPlaying = TRUE]
  /\ UNCHANGED <<hvars, pvars, svars, uvars>>

\* atob or decodeAudioData throws: the catch of playAudio sets the playback
\* error.
DecodeFail ==
  /\ playback.decoding > 0
  /\ playback' = [playback EXCEPT !.decoding = @ - 1, !.isPlaying = FALSE,
                                  !.error = "Failed to decode audio"]
  /\ UNCHANGED <<hvars, pvars, svars, uvars>>

\* sourceNode.onended
PlaybackEnd ==
  /\ playback.isPlaying
  /\ playback' = [playback EXCEPT !.isPlaying = FALSE]
  /\ UNCHANGED <<hvars, pvars, svars, uvars>>

\* A pending retry timer fires.  A timer set earlier with a delay that is not
\* longer expires first, and a timer set after the thread id changed expires
\* after the effect of that render.
TimerFire(t) ==
  /\ t \in timers
  /\ threadIdRef = threadId \/ t.seq < threadIdSetAt
  /\ \A u \in timers : ~(u.seq < t.seq /\ u.delay <= t.delay)
  /\ Commit(Retry([S EXCEPT !.timers = @ \ {t}], t))
  /\ UNCHANGED <<variant, turns, steps, failures, mounted, clearedTurns, pvars, svars, uvars, playback>>

Next ==
  \/ Mount
  \/ ThreadIdEffect
  \/ ClearThread
  \/ \E text \in Texts : SendMessage(text)
  \/ SendAudio
  \/ \E rid \in DOMAIN requests : FetchOk(rid)
  \/ \E rid \in DOMAIN requests : FetchFail(rid)
  \/ \E rid \in DOMAIN requests : \E ev \in Events(variant) : Deliver(rid, ev)
  \/ \E rid \in DOMAIN requests : ReadDone(rid)
  \/ \E rid \in DOMAIN requests : ReadError(rid)
  \/ \E t \in timers : TimerFire(t)
  \/ DecodeOk
  \/ DecodeFail
  \/ PlaybackEnd

Spec == Init /\ [][Next]_vars

\* Every fetch in flight eventually resolves or fails, every response being
\* read eventually ends or fails, and every pending timer eventually fires.
Handles == 1..(MaxTurns + MaxFailures)

Resolve(rid) ==
  FetchOk(rid) \/ FetchFail(rid) \/ ReadDone(rid) \/ ReadError(rid)

Fire(id) == \E t \in timers : t.id = id /\ TimerFire(t)

FairSpec ==
  /\ Spec
  /\ \A rid \in Handles : WF_vars(Resolve(rid))
  /\ \A id \in Handles : WF_vars(Fire(id))
  /\ WF_vars(ThreadIdEffect)

\* ------------------------------------------------ read loop (SSE parsing)
\* The body of a response is a sequence of tokens: the markers "event:" and
\* "data:", a space, a type name, the two halves of a JSON payload, and the
\* line feed.  A network chunk is any non-empty run of tokens.

EventTypes == {"chat_response", "transcription", "complete"}

\* One event as the server writes it.
EventText(type) ==
  <<"event:", " ", type, "\n", "data:", " ", "{", "}", "\n", "\n">>

RECURSIVE StreamsOf(_)
StreamsOf(n) ==
  IF n = 0 THEN {<<>>}
  ELSE {EventText(t) \o rest : t \in EventTypes, rest \in StreamsOf(n - 1)}

WellFormedStreams == UNION {StreamsOf(n) : n \in 1..MaxEvents}

\* buffer.split('\n'): the lines, the last one being the text after the last
\* line feed.
RECURSIVE split(_)
split(b) ==
  IF b = <<>> THEN << <<>> >>
  ELSE LET rest == split(Tail(b))
       IN IF Head(b) = "\n" THEN << <<>> >> \o rest
          ELSE << <<Head(b)>> \o rest[1] >> \o Tail(rest)

startsWith(line, marker) == line # <<>> /\ Head(line) = marker

RECURSIVE trimStart(_)
trimStart(l) == IF l # <<>> /\ Head(l) = " " THEN trimStart(Tail(l)) ELSE l

RECURSIVE trimEnd(_)
trimEnd(l) ==
  IF l # <<>> /\ l[Len(l)] = " "
  THEN trimEnd(SubSeq(l, 1, Len(l) - 1)) ELSE l

\* line.slice(n).trim(), n being the length of the marker.
trim(l) == trimEnd(trimStart(l))

\* JSON.parse succeeds.
ValidJson(d) == d = <<"{", "}">>

\* The case labels of switch (currentEventType).
Cases(v) ==
  {"thread_id", "chat_response", "correction", "error", "complete"}
  \cup (IF v = "audio" THEN {"transcription", "audio_chunk"} ELSE {})

\* The state of one read loop, as one record.
P == [buffer |-> buffer, currentEventType |-> currentEventType,
      currentData |-> currentData, dispatched |-> dispatched]

\* The body of for (const line of lines).
processLine(v, p, line) ==
  IF startsWith(line, "event:")
  THEN [p EXCEPT !.currentEventType = trim(Tail(line))]
  ELSE IF startsWith(line, "data:")
  THEN LET d == trim(Tail(line))
       IN IF p.currentEventType # <<>> /\ d # <<>>
          THEN [p EXCEPT !.dispatched =
                           IF /\ ValidJson(d)
                              /\ \E c \in Cases(v) : p.currentEventType = <<c>>
                           THEN Append(@, <<p.currentEventType, d>>)
                           ELSE @,
                         !.currentEventType = <<>>,
                         !.currentData = <<>>]
          ELSE [p EXCEPT !.currentData = d]
  ELSE IF line = <<>>
  THEN [p EXCEPT !.currentEventType = <<>>, !.currentData = <<>>]
  ELSE p

RECURSIVE processLines(_, _, _)
processLines(v, p, lines) ==
  IF lines = <<>> THEN p
  ELSE processLines(v, processLine(v, p, Head(lines)), Tail(lines))

\* One turn of while (true) after a read that was not done.  The state
\* version declares currentEventType and currentData inside the loop body, the
\* ref and audio versions before the loop.
readChunk(v, p, value) ==
  LET lines == split(p.buffer \o value)
      p1 == [p EXCEPT !.buffer = lines[Len(lines)]]
      p2 == IF v = "state"
            THEN [p1 EXCEPT !.currentEventType = <<>>, !.currentData = <<>>]
            ELSE p1
  IN processLines(v, p2, SubSeq(lines, 1, Len(lines) - 1))

\* What the read loop dispatches when the whole body arrives in one chunk.
singleChunk(v, body) ==
  readChunk(v, [buffer |-> <<>>, currentEventType |-> <<>>,
                currentData |-> <<>>, dispatched |-> <<>>], body).dispatched

InitParse ==
  /\ variant \in Variants
  /\ ChatInit
  /\ stream \in WellFormedStreams
  /\ pos = 0
  /\ buffer = <<>>
  /\ currentEventType = <<>>
  /\ currentData = <<>>
  /\ dispatched = <<>>
  /\ done = FALSE
  /\ ServerIdle
  /\ UiIdle

\* reader.read() hands out the next n tokens of the body.
ReadChunk(n) ==
  /\ ~done
  /\ pos + n <= Len(stream)
  /\ LET p == readChunk(variant, P, SubSeq(stream, pos + 1, pos + n))
     IN /\ buffer' = p.buffer
        /\ currentEventType' = p.currentEventType
        /\ currentData' = p.currentData
        /\ dispatched' = p.dispatched
  /\ pos' = pos + n
  /\ UNCHANGED <<stream, done, cvars, svars, uvars>>

\* reader.read() reports done after the last token.
ReadEnd ==
  /\ ~done
  /\ pos = Len(stream)
  /\ done' = TRUE
  /\ UNCHANGED <<stream, pos, buffer, currentEventType, currentData,
                 dispatched, cvars, svars, uvars>>

NextParse ==
  \/ \E n \in 1..Len(stream) : ReadChunk(n)
  \/ ReadEnd

SpecParse == InitParse /\ [][NextParse]_vars

\* Responses that carry events whose payload is not valid JSON.
Payloads == {<<"{", "}">>, <<"{">>}

EventRecords == [type : EventTypes, payload : Payloads]

EventRecordLists == UNION {[1..n -> EventRecords] : n \in 1..MaxEvents}

\* The event lists with at least one payload that JSON.parse rejects.
MalformedLists ==
  {l \in EventRecordLists : \E i \in DOMAIN l : ~ValidJson(l[i].payload)}

\* The body the server writes for a list of events.
RECURSIVE BodyOf(_)
BodyOf(l) ==
  IF l = <<>> THEN <<>>
  ELSE <<"event:", " ", Head(l).type, "\n", "data:", " ">>
         \o Head(l).payload \o <<"\n", "\n">> \o BodyOf(Tail(l))

InitMalformed ==
  /\ variant \in Variants
  /\ ChatInit
  /\ stream \in {BodyOf(l) : l \in MalformedLists}
  /\ pos = 0
  /\ buffer = <<>>
  /\ currentEventType = <<>>
  /\ currentData = <<>>
  /\ dispatched = <<>>
  /\ done = FALSE
  /\ ServerIdle
  /\ UiIdle

SpecMalformed == InitMalformed /\ [][NextParse]_vars

\* ------------------------------------------------ server side of one Turn
\* The workflow engine and the event-stream publisher: the entry node's
\* verdict selects the nodes that run, every node resolves to a result or a
\* failure, each result is published as one typed event, and the terminal
\* event closes the stream.

\* The "proceed" set runs two nodes concurrently, the "divert" set one node.
ProceedSet == {"generate", "analyze"}

DivertSet == {"divert"}

Route_AnalyzeAlways(v) ==
  IF v = "allowed" THEN ProceedSet ELSE DivertSet \cup {"analyze"}

Route(v) == IF v = "allowed" THEN ProceedSet ELSE DivertSet

\* The logical role an error event names for a failed node.
Role(n) ==
  CASE n = "analyze" -> "correction"
    [] n = "synthesize" -> "tts"
    [] OTHER -> "chat"

\* The typed event published for one node execution record.
EventOf(rec) ==
  IF rec.result = "failed"
  THEN [type |-> "error", arg |-> Role(rec.node), node |-> rec.node]
  ELSE [type |-> CASE rec.node = "analyze" -> "correction"
                   [] rec.node = "synthesize" -> "audio_chunk"
                   [] OTHER -> "chat_response",
        arg |-> IF rec.node = "divert" THEN "rejection" ELSE "",
        node |-> rec.node]

\* An event that reports on no node.
Control(type) == [type |-> type, arg |-> "", node |-> "none"]

Terminated ==
  outStream # <<>> /\ outStream[Len(outStream)].type = "complete"

Unpublished(recs) == {i \in DOMAIN recs : ~recs[i].published}

\* The position of node n in the declaration order of the proceed set.
Rank(n) ==
  IF \E i \in DOMAIN declared : declared[i] = n
  THEN CHOOSE i \in DOMAIN declared : declared[i] = n
  ELSE Len(declared) + 1

Pick_DeclarationOrder(recs) ==
  IF Unpublished(recs) = {} THEN 0
  ELSE CHOOSE i \in Unpublished(recs) :
         \A j \in Unpublished(recs) :
           \/ Rank(recs[i].node) < Rank(recs[j].node)
           \/ (Rank(recs[i].node) = Rank(recs[j].node) /\ i <= j)

Pick_StopAfterFailure(recs) ==
  IF Unpublished(recs) = {} THEN 0
  ELSE IF \E j \in DOMAIN recs : recs[j].published /\ recs[j].result = "failed"
  THEN 0
  ELSE CHOOSE i \in Unpublished(recs) : \A j \in Unpublished(recs) : i <= j

\* The record the publisher takes next, 0 when there is none:
\* first-done-first-published.
Pick(recs) ==
  IF Unpublished(recs) = {} THEN 0
  ELSE CHOOSE i \in Unpublished(recs) : \A j \in Unpublished(recs) : i <= j

CanTerminate_PrimaryOnly(ns, recs) ==
  /\ ns["generate"] # "running" /\ ns["divert"] # "running"
  /\ \A i \in DOMAIN recs :
       recs[i].node \in {"generate", "divert"} => recs[i].published

\* The terminal signal waits until every scheduled node has resolved and
\* every result has been published.
CanTerminate(ns, recs) ==
  /\ \A n \in Nodes : ns[n] # "running"
  /\ Unpublished(recs) = {}

\* A Turn starts on the server with nothing published.
InitServer ==
  /\ variant = "ref"
  /\ ChatInit
  /\ ParseIdle
  /\ UiIdle
  /\ voice \in BOOLEAN
  /\ declared \in {<<"generate", "analyze">>, <<"analyze", "generate">>}
  /\ verdict = "none"
  /\ nodeState = [n \in Nodes |-> "idle"]
  /\ records = <<>>
  /\ outStream = <<>>

\* The request is accepted: audio input is resolved to text, and the thread
\* id is announced before the graph runs.
Accept ==
  /\ outStream = <<>>
  /\ outStream' = IF voice
                  THEN <<Control("transcription"), Control("thread_id")>>
                  ELSE <<Control("thread_id")>>
  /\ UNCHANGED <<voice, declared, verdict, nodeState, records, cvars, pvars, uvars>>

\* The entry node returns its verdict and the selected nodes start.
Classify(v) ==
  /\ outStream # <<>>
  /\ verdict = "none"
  /\ verdict' = v
  /\ nodeState' = [n \in Nodes |-> IF n \in Route(v) THEN "running" ELSE "idle"]
  /\ UNCHANGED <<voice, declared, records, outStream, cvars, pvars, uvars>>

\* A running node resolves; its result or failure is recorded.  A reply that
\* succeeded in a voice Turn is handed to speech synthesis.
NodeDone(n, result) ==
  /\ nodeState[n] = "running"
  /\ nodeState' =
       [nodeState EXCEPT ![n] = result,
                         !["synthesize"] =
                           IF voice /\ result = "ok" /\ n \in {"generate", "divert"}
                           THEN "running" ELSE IF n = "synthesize" THEN result
                           ELSE @]
  /\ records' = Append(records, [node |-> n, result |-> result,
                                 published |-> FALSE])
  /\ UNCHANGED <<voice, declared, verdict, outStream, cvars, pvars, uvars>>

\* The publisher emits the typed event of the next record.
Publish ==
  /\ Pick(records) # 0
  /\ LET i == Pick(records)
     IN /\ outStream' = Append(outStream, EventOf(records[i]))
        /\ records' = [records EXCEPT ![i].published = TRUE]
  /\ UNCHANGED <<voice, declared, verdict, nodeState, cvars, pvars, uvars>>

\* The terminal event closes the stream.
Terminal ==
  /\ verdict # "none"
  /\ ~Terminated
  /\ CanTerminate(nodeState, records)
  /\ outStream' = Append(outStream, Control("complete"))
  /\ UNCHANGED <<voice, declared, verdict, nodeState, records, cvars, pvars, uvars>>

NextServer ==
  \/ Accept
  \/ \E v \in {"allowed", "disallowed"} : Classify(v)
  \/ \E n \in Nodes : \E result \in {"ok", "failed"} : NodeDone(n, result)
  \/ Publish
  \/ Terminal

SpecServer == InitServer /\ [][NextServer]_vars

\* Every adapter call is bounded by a timeout, so every running node resolves;
\* the publisher and the engine keep running.
FairServer ==
  /\ SpecServer
  /\ WF_vars(Accept)
  /\ WF_vars(\E v \in {"allowed", "disallowed"} : Classify(v))
  /\ \A n \in Nodes : WF_vars(\E result \in {"ok", "failed"} : NodeDone(n, result))
  /\ WF_vars(Publish)
  /\ WF_vars(Terminal)

\* ------------------------------------------- rendering of a correction
\* An explanation is a sequence of words; a Correction of a correction event
\* carries any issue list and any explanation, the degraded Correction of
\* onError carries no issue and the fixed fallback explanation.
Words == {"Grammar", "check", "unavailable", "good"}

Explanations == UNION {[1..n -> Words] : n \in 0..MaxWords}

IssueLists == UNION {[1..n -> {"issue"}] : n \in 0..MaxIssues}

ReceivedCorrections ==
  [original : {"hi"}, corrected : {"hi"}, issues : IssueLists,
   explanation : Explanations]

DegradedCorrection ==
  [original |-> "", corrected |-> "", issues |-> <<>>,
   explanation |-> <<"Grammar", "check", "unavailable">>]

\* String.prototype.includes, on words.
includes(e, w) == \E i \in DOMAIN e : e[i] = w

\* CorrectionAccordion: isUnavailable and getButtonLabel.
getButtonLabel(c) ==
  IF includes(c.explanation, "unavailable") THEN "Grammar check unavailable"
  ELSE IF Len(c.issues) > 0 THEN "corrections"
  ELSE "No corrections needed"

\* ChatMessage: the accordion, the "Perfect!" mark, or nothing.
ChatMessage(m) ==
  IF m.role = "user" /\ m.correction # <<>>
  THEN LET c == m.correction[1]
       IN IF Len(c.issues) > 0 \/ includes(c.explanation, "unavailable")
          THEN getButtonLabel(c)
          ELSE "Perfect!"
  ELSE "none"

InitRender ==
  /\ variant = "ref"
  /\ ChatInit
  /\ ParseIdle
  /\ ServerIdle
  /\ view \in {[role |-> r, correction |-> <<>>, origin |-> "none",
                label |-> "none"] : r \in {"user", "assistant"}}
  /\ InputIdle

\* onCorrection attaches the Correction of a correction event to the tracked
\* user message.
AttachReceived(c) ==
  /\ view.role = "user"
  /\ view.origin = "none"
  /\ view' = [view EXCEPT !.correction = <<c>>, !.origin = "received"]
  /\ UNCHANGED <<cvars, pvars, svars, inputText, rejected, rvars, disconnectedAt, historyFetch, avars, spvars>>

\* onError with node correction attaches the fallback Correction.
AttachDegraded ==
  /\ view.role = "user"
  /\ view.origin = "none"
  /\ view' = [view EXCEPT !.correction = <<DegradedCorrection>>,
                          !.origin = "degraded"]
  /\ UNCHANGED <<cvars, pvars, svars, inputText, rejected, rvars, disconnectedAt, historyFetch, avars, spvars>>

\* The message is rendered.
Render ==
  /\ view.label = "none"
  /\ view' = [view EXCEPT !.label = ChatMessage(view)]
  /\ UNCHANGED <<cvars, pvars, svars, inputText, rejected, rvars, disconnectedAt, historyFetch, avars, spvars>>

NextRender ==
  \/ \E c \in ReceivedCorrections : AttachReceived(c)
  \/ AttachDegraded
  \/ Render

SpecRender == InitRender /\ [][NextRender]_vars

\* ------------------------------------------------------- message input
\* What the user can type: up to MaxTyped characters, spaces included.
Keys == {" ", "h"}

Typed == UNION {[1..n -> Keys] : n \in 0..MaxTyped}

\* The string a sequence of characters stands for.
RECURSIVE Join(_)
Join(l) == IF l = <<>> THEN "" ELSE Head(l) \o Join(Tail(l))

handleSend_NoTrim(s, value, turn) ==
  IF value = <<>> THEN s ELSE sendMessage(s, Join(value), turn)

\* MessageInput.handleSend up to the call of onSend, which App binds to
\* sendMessage: the text is trimmed, and nothing is done when nothing is left.
handleSend(s, value, turn) ==
  LET trimmed == trim(value)
  IN IF trimmed = <<>> THEN s ELSE sendMessage(s, Join(trimmed), turn)

InitInput ==
  /\ variant \in {"ref", "state"}
  /\ ChatInit
  /\ ParseIdle
  /\ ServerIdle
  /\ UiIdle

\* The user edits the textarea.
handleChange(value) ==
  /\ mounted
  /\ ~isInputDisabled
  /\ value # inputText
  /\ inputText' = value
  /\ rejected' = FALSE
  /\ UNCHANGED <<cvars, pvars, svars, view, rvars, disconnectedAt, historyFetch, avars, spvars>>

\* The user presses Enter in the enabled textarea, or clicks Send.
HandleSend ==
  /\ mounted
  /\ threadIdRef = threadId
  /\ ~isInputDisabled
  /\ turns < MaxInputTurns
  /\ LET sent == handleSend(S, inputText, turns + 1)
     IN IF sent = S
        THEN /\ Commit(S)
             /\ turns' = turns
             /\ inputText' = inputText
             /\ rejected' = TRUE
        ELSE /\ Commit([sent EXCEPT !.openTurns = @ \cup {turns + 1}])
             /\ turns' = turns + 1
             /\ inputText' = <<>>
             /\ rejected' = FALSE
  /\ UNCHANGED <<variant, steps, failures, mounted, clearedTurns, playback,
                 pvars, svars, view, rvars, disconnectedAt, historyFetch, avars, spvars>>

NextInput ==
  \/ Mount
  \/ ThreadIdEffect
  \/ ClearThread
  \/ \E value \in Typed : handleChange(value)
  \/ HandleSend
  \/ \E rid \in DOMAIN requests : FetchOk(rid)
  \/ \E rid \in DOMAIN requests : FetchFail(rid)
  \/ \E rid \in DOMAIN requests : \E ev \in Events(variant) : Deliver(rid, ev)
  \/ \E rid \in DOMAIN requests : ReadDone(rid)
  \/ \E rid \in DOMAIN requests : ReadError(rid)
  \/ \E t \in timers : TimerFire(t)

SpecInput == InitInput /\ [][NextInput]_vars

\* ------------------------------------------------------- audio recorder
\* A MediaRecorder with its stream: state as the platform keeps it, the number
\* of stopRecording handlers wrapped around the original onstop, the events
\* queued by stop(), whether the tracks of its stream are live, and the chunks
\* its ondataavailable has received.
NewRecorder ==
  [state |-> "recording", onstop |-> 0, queue |-> <<>>, tracks |-> TRUE,
   recorded |-> <<>>]

\* track.stop() on every track of the stream held by streamRef.
StopTracks(recs, ref) ==
  IF ref = NullId THEN recs
  ELSE [recs EXCEPT ![ref].tracks = FALSE]

InitRecorder ==
  /\ variant = "audio"
  /\ ChatInit
  /\ ParseIdle
  /\ ServerIdle
  /\ UiIdle

\* handleMicClick with isRecording false: startRecording up to its await.
StartClick ==
  /\ mounted
  /\ ~isInputDisabled
  /\ ~isRecording
  /\ Len(mediaRecorders) + pendingMedia < MaxSessions
  /\ audioError' = "null"
  /\ audioChunksRef' = <<>>
  /\ pendingMedia' = pendingMedia + 1
  /\ UNCHANGED <<isRecording, mediaRecorders, mediaRecorderRef, streamRef,
                 resolveTimers, sentBlobs>>
  /\ UNCHANGED <<cvars, pvars, svars, view, inputText, rejected, disconnectedAt, historyFetch, avars, spvars>>

\* getUserMedia resolves: the rest of startRecording.
GetUserMediaOk ==
  /\ pendingMedia > 0
  /\ pendingMedia' = pendingMedia - 1
  /\ mediaRecorders' = Append(mediaRecorders, NewRecorder)
  /\ streamRef' = Len(mediaRecorders) + 1
  /\ mediaRecorderRef' = Len(mediaRecorders) + 1
  /\ isRecording' = TRUE
  /\ UNCHANGED <<audioError, audioChunksRef, resolveTimers, sentBlobs>>
  /\ UNCHANGED <<cvars, pvars, svars, view, inputText, rejected, disconnectedAt, historyFetch, avars, spvars>>

\* getUserMedia rejects: the catch block of startRecording.
GetUserMediaFail ==
  /\ pendingMedia > 0
  /\ pendingMedia' = pendingMedia - 1
  /\ audioError' = "Failed to start recording"
  /\ isRecording' = FALSE
  /\ mediaRecorders' = StopTracks(mediaRecorders, streamRef)
  /\ streamRef' = NullId
  /\ UNCHANGED <<mediaRecorderRef, audioChunksRef, resolveTimers, sentBlobs>>
  /\ UNCHANGED <<cvars, pvars, svars, view, inputText, rejected, disconnectedAt, historyFetch, avars, spvars>>

\* stopRecording up to mediaRecorder.stop(): null when there is no recorder or
\* it is inactive; otherwise onstop is wrapped and stop() makes the recorder
\* inactive and queues its dataavailable and stop events.
stopRecording(recs, mr) ==
  IF mr = NullId \/ recs[mr].state = "inactive" THEN recs
  ELSE [recs EXCEPT ![mr].onstop = @ + 1,
                    ![mr].state = "inactive",
                    ![mr].queue = <<"dataavailable", "stop">>]

\* handleMicClick with isRecording true.
StopClick ==
  /\ mounted
  /\ ~isInputDisabled
  /\ isRecording
  /\ mediaRecorders' = stopRecording(mediaRecorders, mediaRecorderRef)
  /\ UNCHANGED <<isRecording, audioError, mediaRecorderRef, streamRef,
                 audioChunksRef, pendingMedia, resolveTimers, sentBlobs>>
  /\ UNCHANGED <<cvars, pvars, svars, view, inputText, rejected, disconnectedAt, historyFetch, avars, spvars>>

\* ondataavailable of recorder i: a chunk that is not empty is kept.
DataAvailable(i, size) ==
  /\ i \in DOMAIN mediaRecorders
  /\ mediaRecorders[i].queue # <<>>
  /\ Head(mediaRecorders[i].queue) = "dataavailable"
  /\ audioChunksRef' = IF size > 0 THEN Append(audioChunksRef, i)
                       ELSE audioChunksRef
  /\ mediaRecorders' =
       [mediaRecorders EXCEPT ![i].queue = Tail(@),
          ![i].recorded = IF size > 0 THEN Append(@, i) ELSE @]
  /\ UNCHANGED <<isRecording, audioError, mediaRecorderRef, streamRef,
                 pendingMedia, resolveTimers, sentBlobs>>
  /\ UNCHANGED <<cvars, pvars, svars, view, inputText, rejected, disconnectedAt, historyFetch, avars, spvars>>

\* onstop of recorder i as stopRecording has wrapped it: the tracks of the
\* stream held by streamRef are stopped, isRecording becomes false, and each
\* wrapper sets a timer that will resolve its promise.
OnStop(i) ==
  /\ i \in DOMAIN mediaRecorders
  /\ mediaRecorders[i].queue # <<>>
  /\ Head(mediaRecorders[i].queue) = "stop"
  /\ LET n == mediaRecorders[i].onstop
         dequeued == [mediaRecorders EXCEPT ![i].queue = Tail(@)]
     IN IF n = 0
        THEN /\ mediaRecorders' = dequeued
             /\ UNCHANGED <<isRecording, streamRef, resolveTimers>>
        ELSE /\ mediaRecorders' = StopTracks(dequeued, streamRef)
             /\ streamRef' = NullId
             /\ isRecording' = FALSE
             /\ resolveTimers' = resolveTimers \o [k \in 1..n |-> i]
  /\ UNCHANGED <<audioError, mediaRecorderRef, audioChunksRef, pendingMedia,
                 sentBlobs>>
  /\ UNCHANGED <<cvars, pvars, svars, view, inputText, rejected, disconnectedAt, historyFetch, avars, spvars>>

\* The setTimeout(0) callback of stopRecording builds the blob from
\* audioChunksRef and resolves; handleMicClick resumes and hands the blob, an
\* object and so never falsy, to onSendAudio, which App binds to sendAudio.
ResolveBlob ==
  /\ resolveTimers # <<>>
  /\ turns < MaxSessions
  /\ resolveTimers' = Tail(resolveTimers)
  /\ sentBlobs' = Append(sentBlobs, [session |-> Head(resolveTimers),
                           blob |-> audioChunksRef])
  /\ Commit(sendAudio([S EXCEPT !.openTurns = @ \cup {turns + 1}],
                      turns + 1))
  /\ turns' = turns + 1
  /\ UNCHANGED <<isRecording, audioError, mediaRecorders, mediaRecorderRef,
                 streamRef, audioChunksRef, pendingMedia>>
  /\ UNCHANGED <<variant, steps, failures, mounted, clearedTurns, playback,
                 pvars, svars, view, inputText, rejected, disconnectedAt, historyFetch, avars, spvars>>

NextRecorder ==
  \/ Mount
  \/ ThreadIdEffect
  \/ StartClick
  \/ GetUserMediaOk
  \/ GetUserMediaFail
  \/ StopClick
  \/ \E i \in 1..MaxSessions : \E size \in {0, 1} : DataAvailable(i, size)
  \/ \E i \in 1..MaxSessions : OnStop(i)
  \/ ResolveBlob
  \/ \E rid \in DOMAIN requests : FetchOk(rid)
  \/ \E rid \in DOMAIN requests : FetchFail(rid)
  \/ \E rid \in DOMAIN requests : \E ev \in Events(variant) : Deliver(rid, ev)
  \/ \E rid \in DOMAIN requests : ReadDone(rid)
  \/ \E rid \in DOMAIN requests : ReadError(rid)

SpecRecorder == InitRecorder /\ [][NextRecorder]_vars

\* ----------------------------------------------------------- disconnect
\* disconnect of the hook, in all three versions.
disconnect(s) ==
  setLoading(setLoading(cleanup(s), "chat", FALSE), "correction", FALSE)

\* The owner of the hook calls disconnect().
Disconnect ==
  /\ mounted
  /\ Commit(disconnect(S))
  /\ disconnectedAt' = turns
  /\ UNCHANGED <<variant, turns, steps, failures, mounted, clearedTurns,
                 playback, pvars, svars, view, inputText, rejected, rvars,
                 historyFetch, avars, spvars>>

NextDisconnect ==
  \/ Mount
  \/ ThreadIdEffect
  \/ ClearThread
  \/ \E text \in Texts : turns < MaxDisconnectTurns /\ SendMessage(text)
  \/ turns < MaxDisconnectTurns /\ SendAudio
  \/ Disconnect
  \/ \E rid \in DOMAIN requests : FetchOk(rid)
  \/ \E rid \in DOMAIN requests : FetchFail(rid)
  \/ \E rid \in DOMAIN requests : \E ev \in Events(variant) : Deliver(rid, ev)
  \/ \E rid \in DOMAIN requests : ReadDone(rid)
  \/ \E rid \in DOMAIN requests : ReadError(rid)
  \/ \E t \in timers : TimerFire(t)

SpecDisconnect == Init /\ [][NextDisconnect]_vars

\* -------------------------------------------------- conversation history
\* What GET /history/{thread_id} can return for the stored thread: no
\* messages, or messages of the earlier session, which carry backend ids.
BackendId == 0 - 1

Histories ==
  {<<>>,
   <<[id |-> BackendId, role |-> "user", content |-> "old",
      correction |-> <<>>, turn |-> 0]>>}

\* LOAD_HISTORY
loadHistory(s, payload) == [s EXCEPT !.messages = payload]

\* ChatProvider's mount effect with its history fetch: a stored thread id
\* goes into the state and the history of that thread is requested.
MountHistory ==
  /\ ~mounted
  /\ mounted' = TRUE
  /\ Commit(IF localStorage # NullThread
            THEN [S EXCEPT !.threadId = localStorage] ELSE S)
  /\ historyFetch' = IF localStorage # NullThread THEN "pending" ELSE "none"
  /\ UNCHANGED <<variant, turns, steps, failures, clearedTurns, playback,
                 pvars, svars, view, inputText, rejected, rvars,
                 disconnectedAt, avars, spvars>>

\* The history response arrives and parses.
HistoryLoaded(payload) ==
  /\ historyFetch = "pending"
  /\ historyFetch' = "loaded"
  /\ Commit(IF Len(payload) > 0 THEN loadHistory(S, payload) ELSE S)
  /\ UNCHANGED <<variant, turns, steps, failures, mounted, clearedTurns,
                 playback, pvars, svars, view, inputText, rejected, rvars,
                 disconnectedAt, avars, spvars>>

\* The history fetch fails: the catch only logs.
HistoryFailed ==
  /\ historyFetch = "pending"
  /\ historyFetch' = "failed"
  /\ UNCHANGED <<cvars, pvars, svars, view, inputText, rejected, rvars,
                 disconnectedAt, avars, spvars>>

NextHistory ==
  \/ MountHistory
  \/ \E payload \in Histories : HistoryLoaded(payload)
  \/ HistoryFailed
  \/ ThreadIdEffect
  \/ ClearThread
  \/ \E text \in Texts : turns < MaxHistoryTurns /\ SendMessage(text)
  \/ turns < MaxHistoryTurns /\ SendAudio
  \/ \E rid \in DOMAIN requests : FetchOk(rid)
  \/ \E rid \in DOMAIN requests : FetchFail(rid)
  \/ \E rid \in DOMAIN requests : \E ev \in Events(variant) : Deliver(rid, ev)
  \/ \E rid \in DOMAIN requests : ReadDone(rid)
  \/ \E rid \in DOMAIN requests : ReadError(rid)
  \/ \E t \in timers : TimerFire(t)

SpecHistory == Init /\ [][NextHistory]_vars

\* ----------------------------------------------------- reducer on its own
\* The three message actions of chatReducer applied in any order, with ids
\* that are in the list and ids that are not.
ReducerIds == 1..(MaxMessages + 1)

ReducerCorrection ==
  [original |-> "a", corrected |-> "b", issues |-> <<"issue">>,
   explanation |-> "ok", turn |-> 0]

AddMessage(role) ==
  /\ Len(messages) < MaxMessages
  /\ Commit(addMessage(S, role, "a", 0))
  /\ UNCHANGED <<variant, turns, steps, failures, mounted, clearedTurns,
                 playback, pvars, svars, uvars>>

UpdateMessageContent(messageId) ==
  /\ Commit(updateMessageContent(S, messageId, "b"))
  /\ UNCHANGED <<variant, turns, steps, failures, mounted, clearedTurns,
                 playback, pvars, svars, uvars>>

AttachCorrection(messageId) ==
  /\ Commit(attachCorrection(S, messageId, ReducerCorrection))
  /\ UNCHANGED <<variant, turns, steps, failures, mounted, clearedTurns,
                 playback, pvars, svars, uvars>>

NextReducer ==
  \/ \E role \in {"user", "assistant"} : AddMessage(role)
  \/ \E messageId \in ReducerIds : UpdateMessageContent(messageId)
  \/ \E messageId \in ReducerIds : AttachCorrection(messageId)

InitReducer ==
  /\ variant = "ref"
  /\ ChatInit
  /\ ParseIdle
  /\ ServerIdle
  /\ UiIdle

SpecReducer == InitReducer /\ [][NextReducer]_vars

\* ------------------------------------------------- playback on its own
\* useAudioPlayback with its source nodes.  A node is decoding (playAudio
\* waits for decodeAudioData), playing, stopped (stop() was called and its
\* ended event is still to come), ended, or failed.

\* stopAudio on the nodes: the node held by the ref is stopped.
stopNodes(nodes, ref) ==
  IF ref = NullId THEN nodes
  ELSE [nodes EXCEPT ![ref] = IF @ = "playing" THEN "stopped" ELSE @]

InitPlayback ==
  /\ variant = "audio"
  /\ ChatInit
  /\ ParseIdle
  /\ ServerIdle
  /\ UiIdle

\* playAudio up to its await: stopAudio, setError(null), getAudioContext.
PlayAudio(context) ==
  /\ playback.chunks < MaxPlays
  /\ playback' = playAudio(playback, context)
  /\ sourceNodes' = IF context
                    THEN Append(stopNodes(sourceNodes, sourceNodeRef),
                                "decoding")
                    ELSE stopNodes(sourceNodes, sourceNodeRef)
  /\ sourceNodeRef' = NullId
  /\ UNCHANGED <<hvars, pvars, svars, view, inputText, rejected, rvars,
                 disconnectedAt, historyFetch, spvars>>

\* stopAudio called by the owner of the hook.
StopAudio ==
  /\ playback' = [playback EXCEPT !.isPlaying = FALSE]
  /\ sourceNodes' = stopNodes(sourceNodes, sourceNodeRef)
  /\ sourceNodeRef' = NullId
  /\ UNCHANGED <<hvars, pvars, svars, view, inputText, rejected, rvars,
                 disconnectedAt, historyFetch, spvars>>

\* decodeAudioData of call i resolves: the node is created, held by the ref
\* and started.
DecodeResolved(i) ==
  /\ i \in DOMAIN sourceNodes
  /\ sourceNodes[i] = "decoding"
  /\ sourceNodes' = [sourceNodes EXCEPT ![i] = "playing"]
  /\ sourceNodeRef' = i
  /\ playback' = [playback EXCEPT !.decoding = @ - 1, !.isPlaying = TRUE]
  /\ UNCHANGED <<hvars, pvars, svars, view, inputText, rejected, rvars,
                 disconnectedAt, historyFetch, spvars>>

\* atob or decodeAudioData of call i throws: the catch of playAudio.
DecodeRejected(i) ==
  /\ i \in DOMAIN sourceNodes
  /\ sourceNodes[i] = "decoding"
  /\ sourceNodes' = [sourceNodes EXCEPT ![i] = "failed"]
  /\ playback' = [playback EXCEPT !.decoding = @ - 1, !.isPlaying = FALSE,
                                  !.error = "Failed to decode audio"]
  /\ UNCHANGED <<hvars, pvars, svars, view, inputText, rejected, rvars,
                 disconnectedAt, historyFetch, sourceNodeRef, spvars>>

\* The ended event of node i, after its buffer has played to the end or after
\* stop(): onended.
SourceEnded(i) ==
  /\ i \in DOMAIN sourceNodes
  /\ sourceNodes[i] \in {"playing", "stopped"}
  /\ sourceNodes' = [sourceNodes EXCEPT ![i] = "ended"]
  /\ sourceNodeRef' = NullId
  /\ playback' = [playback EXCEPT !.isPlaying = FALSE]
  /\ UNCHANGED <<hvars, pvars, svars, view, inputText, rejected, rvars,
                 disconnectedAt, historyFetch, spvars>>

NextPlayback ==
  \/ \E context \in BOOLEAN : PlayAudio(context)
  \/ StopAudio
  \/ \E i \in 1..MaxPlays : DecodeResolved(i)
  \/ \E i \in 1..MaxPlays : DecodeRejected(i)
  \/ \E i \in 1..MaxPlays : SourceEnded(i)

SpecPlayback == InitPlayback /\ [][NextPlayback]_vars

\* ------------------------------------------------- speech recognition alone

\* clearTimeoutRef: the timer held by the ref is cleared; a timer that has
\* fired already is not changed by clearTimeout.
clearTimeoutRef(tm, ref) ==
  IF ref = NullId THEN tm
  ELSE [tm EXCEPT ![ref].state = IF @ = "pending" THEN "cleared" ELSE @]

\* recognition.stop() on the recognition held by the ref.
stopRecognition(recs, ref) ==
  IF ref = NullId THEN recs
  ELSE [recs EXCEPT ![ref] = IF @ \in {"starting", "started"}
                             THEN "stopping" ELSE @]

\* The timers after onresult: the held timer is cleared, and a new one is set
\* only when the combined transcript is not empty.
resultTimers(tm, ref, hasText) ==
  IF hasText
  THEN Append(clearTimeoutRef(tm, ref), [state |-> "pending", kind |-> "result"])
  ELSE clearTimeoutRef(tm, ref)

InitSpeech ==
  /\ variant = "audio"
  /\ ChatInit
  /\ ParseIdle
  /\ ServerIdle
  /\ UiIdle

\* startRecording: stopRecording when isRecording is true, else a new
\* recognition with its handlers, held by the ref, and recognition.start().
StartRecording(ok) ==
  /\ IF srIsRecording
     THEN /\ speechTimers' = clearTimeoutRef(speechTimers, timeoutRef)
          /\ timeoutRef' = NullId
          /\ recognitions' = stopRecognition(recognitions, recognitionRef)
          /\ srIsRecording' = FALSE
          /\ UNCHANGED <<srTranscript, srError, recognitionRef>>
     ELSE /\ Len(recognitions) < MaxRecognitions
          /\ srTranscript' = ""
          /\ srError' = IF ok THEN "" ELSE "Failed to start speech recognition"
          /\ recognitions' = Append(recognitions,
                                    IF ok THEN "starting" ELSE "failed")
          /\ recognitionRef' = Len(recognitions) + 1
          /\ UNCHANGED <<srIsRecording, speechTimers, timeoutRef>>
  /\ UNCHANGED <<cvars, pvars, svars, view, inputText, rejected, rvars,
                 disconnectedAt, historyFetch, avars, results>>

\* recognition.onstart of recognition i.
OnStart(i) ==
  /\ i \in DOMAIN recognitions
  /\ recognitions[i] = "starting"
  /\ recognitions' = [recognitions EXCEPT ![i] = "started"]
  /\ srIsRecording' = TRUE
  /\ speechTimers' = Append(speechTimers,
                            [state |-> "pending", kind |-> "start"])
  /\ timeoutRef' = Len(speechTimers) + 1
  /\ UNCHANGED <<cvars, pvars, svars, view, inputText, rejected, rvars,
                 disconnectedAt, historyFetch, avars, srTranscript, srError,
                 recognitionRef, results>>

\* recognition.onresult of recognition i; hasText tells whether the combined
\* transcript of the event is not empty.
OnResult(i, hasText) ==
  /\ i \in DOMAIN recognitions
  /\ recognitions[i] \in {"started", "stopping"}
  /\ results < MaxResults
  /\ results' = results + 1
  /\ speechTimers' = resultTimers(speechTimers, timeoutRef, hasText)
  /\ timeoutRef' = IF hasText THEN Len(speechTimers) + 1 ELSE NullId
  /\ srTranscript' = IF hasText THEN "hi" ELSE srTranscript
  /\ UNCHANGED <<cvars, pvars, svars, view, inputText, rejected, rvars,
                 disconnectedAt, historyFetch, avars, srIsRecording, srError,
                 recognitions, recognitionRef>>

\* recognition.onerror of recognition i: the error is stored and stopRecording
\* is called; the recognition that failed ends next.
OnError(i) ==
  /\ i \in DOMAIN recognitions
  /\ recognitions[i] \in {"starting", "started"}
  /\ srError' = "Speech recognition error"
  /\ speechTimers' = clearTimeoutRef(speechTimers, timeoutRef)
  /\ timeoutRef' = NullId
  /\ recognitions' = [stopRecognition(recognitions, recognitionRef)
                        EXCEPT ![i] = "stopping"]
  /\ srIsRecording' = FALSE
  /\ UNCHANGED <<cvars, pvars, svars, view, inputText, rejected, rvars,
                 disconnectedAt, historyFetch, avars, srTranscript,
                 recognitionRef, results>>

\* recognition.onend of recognition i, after stop(), after an error, or when
\* the browser ends the recognition.
OnEnd(i) ==
  /\ i \in DOMAIN recognitions
  /\ recognitions[i] \in {"started", "stopping"}
  /\ recognitions' = [recognitions EXCEPT ![i] = "ended"]
  /\ speechTimers' = clearTimeoutRef(speechTimers, timeoutRef)
  /\ timeoutRef' = NullId
  /\ srIsRecording' = FALSE
  /\ UNCHANGED <<cvars, pvars, svars, view, inputText, rejected, rvars,
                 disconnectedAt, historyFetch, avars, srTranscript, srError,
                 recognitionRef, results>>

\* Timer t fires after `timeout` ms: the timer of onstart stores the error,
\* both call stopRecording. All timers have the same delay, so they fire in
\* the order they were set.
SpeechTimerFire(t) ==
  /\ t \in DOMAIN speechTimers
  /\ speechTimers[t].state = "pending"
  /\ \A u \in 1..(t - 1) : speechTimers[u].state # "pending"
  /\ srError' = IF speechTimers[t].kind = "start"
                THEN "No speech detected. Recording stopped."
                ELSE srError
  /\ speechTimers' = clearTimeoutRef([speechTimers EXCEPT ![t].state = "fired"],
                                     timeoutRef)
  /\ timeoutRef' = NullId
  /\ recognitions' = stopRecognition(recognitions, recognitionRef)
  /\ srIsRecording' = FALSE
  /\ UNCHANGED <<cvars, pvars, svars, view, inputText, rejected, rvars,
                 disconnectedAt, historyFetch, avars, srTranscript,
                 recognitionRef, results>>

NextSpeech ==
  \/ \E ok \in BOOLEAN : StartRecording(ok)
  \/ \E i \in 1..MaxRecognitions : OnStart(i)
  \/ \E i \in 1..MaxRecognitions, hasText \in BOOLEAN : OnResult(i, hasText)
  \/ \E i \in 1..MaxRecognitions : OnError(i)
  \/ \E i \in 1..MaxRecognitions : OnEnd(i)
  \/ \E t \in 1..(MaxRecognitions + MaxResults) : SpeechTimerFire(t)

SpecSpeech == InitSpeech /\ [][NextSpeech]_vars

\* The timers fire when pending, and a recognition that was stopped ends.
FairSpeech ==
  /\ SpecSpeech
  /\ \A t \in 1..(MaxRecognitions + MaxResults) : WF_vars(SpeechTimerFire(t))
  /\ \A i \in 1..MaxRecognitions :
       WF_vars(OnEnd(i) /\ recognitions[i] = "stopping")

\* ----------------------------------------------------------------- claims

UserMessagesOf(t) ==
  {i \in DOMAIN messages : messages[i].role = "user" /\ messages[i].turn = t}

AssistantMessagesOf(t) ==
  {i \in DOMAIN messages :
     messages[i].role = "assistant" /\ messages[i].turn = t}

Reading == {rid \in DOMAIN requests : requests[rid].status = "reading"}

\* C1: in the ref version, with no clearThread so far, the retry timer of an
\* open Turn that has made k retries waits reconnectBaseDelay * 2^k, no Turn
\* is issued more than maxReconnectAttempts + 1 requests, and the reported
\* reconnectAttempts never exceeds maxReconnectAttempts.
C1_BackoffSchedule ==
  (variant = "ref" /\ clearedTurns = {}) =>
    /\ \A t \in timers :
         t.turn \in openTurns => t.delay = reconnectBaseDelay * Pow2(t.k)
    /\ \A t \in openTurns : nReq[t] <= maxReconnectAttempts + 1
    /\ reconnectAttempts <= maxReconnectAttempts

\* C2: every submission made since the last clearThread has added exactly one
\* user message,
\* whatever number of requests was issued for it, and every request in flight
\* (a retry included) carries the text of the user message of its Turn.
C2_OneUserMessagePerSend ==
  /\ \A t \in 1..MaxTurns :
       Cardinality(UserMessagesOf(t)) =
         IF t <= turns /\ t \notin clearedTurns THEN 1 ELSE 0
  /\ variant # "audio" =>
       \A rid \in DOMAIN requests :
         \A i \in UserMessagesOf(requests[rid].turn) :
           messages[i].content = requests[rid].text

\* C2 witness: a Turn on its second retry, its user message in the list.
C2_Witness ==
  \E t \in 1..turns : nReq[t] >= 3 /\ Cardinality(UserMessagesOf(t)) = 1

\* C3: in the ref version, while the only submission made so far is open, the
\* list holds at most one assistant message, over all attempts of that Turn.
C3_OneAssistantPerTurn ==
  (variant = "ref" /\ turns = 1 /\ 1 \in openTurns)
    => Cardinality(AssistantMessagesOf(1)) <= 1

Quiet == ~loading.chat /\ ~loading.correction /\ timers = {}

\* C4: every submitted Turn eventually reaches a state in which both loading
\* flags are clear, no retry is pending, and the Turn has ended in handled
\* completion or in a surfaced terminal failure (unless the user starts a new
\* conversation meanwhile).
C4_TurnResolves ==
  \A t \in 1..MaxTurns :
    (t \in openTurns) ~> (clearedTurns # {} \/ (Quiet /\ t \notin openTurns))

\* C5: with no clearThread so far, at most one read loop is delivering events
\* at any time.
C5_OneReadLoop == clearedTurns = {} => Cardinality(Reading) <= 1

\* C6: with no clearThread so far, the message input is disabled in every
\* state in which a Turn is open.
C6_InputDisabledWhileOpen ==
  (openTurns # {} /\ clearedTurns = {}) => isInputDisabled

\* C7: when the read loop has ended, the pairs it dispatched are the pairs it
\* dispatches when the same body arrives in a single chunk.
C7_ChunkingInvariant == done => dispatched = singleChunk(variant, stream)

\* C8: an event dispatched from a response whose complete event has been
\* handled changes neither the message list, nor the loading flags, nor the
\* error.
C8_ClosedAfterComplete ==
  [][\A rid \in DOMAIN requests : \A ev \in Events(variant) :
       (variant = "ref" /\ requests[rid].completed /\ Deliver(rid, ev))
         => UNCHANGED <<messages, loading, error>>]_vars

\* C9: with no clearThread so far, a correction received from the server sits
\* on the user message of the submission whose response carried it.
C9_CorrectionOnOwnMessage ==
  (variant = "ref" /\ clearedTurns = {}) =>
    \A i \in DOMAIN messages :
      (messages[i].correction # <<>> /\ messages[i].correction[1].turn # 0)
        => /\ messages[i].role = "user"
           /\ messages[i].correction[1].turn = messages[i].turn

\* C10: an error event for the correction node attaches the fallback
\* correction to the tracked user message, clears loading.correction, and
\* leaves the error, loading.chat and the read loop as they were.
C10_CorrectionErrorDegrades ==
  [][\A rid \in DOMAIN requests :
       Deliver(rid, [type |-> "error", arg |-> "correction"])
         => /\ error' = error
            /\ loading'.correction = FALSE
            /\ loading'.chat = loading.chat
            /\ rid \in DOMAIN requests'
            /\ requests'[rid].status = "reading"
            /\ \A i \in DOMAIN messages' :
                 messages'[i].id = lastUserMessageIdRef
                   => messages'[i].correction = <<FallbackCorrection>>]_vars

\* C11: an error event for the chat node sets the error to the event's
\* message and clears loading.chat; loading.correction, the message list, the
\* thread id, the tracked message ids and the read loop are as before.
C11_ChatErrorFrame ==
  [][\A rid \in DOMAIN requests :
       Deliver(rid, [type |-> "error", arg |-> "chat"])
         => /\ error' = [msg |-> "chat", delay |-> 0]
            /\ loading'.chat = FALSE
            /\ loading'.correction = loading.correction
            /\ UNCHANGED <<messages, threadId, lastUserMessageIdRef,
                           currentMessageIdRef, timers>>
            /\ rid \in DOMAIN requests'
            /\ requests'[rid].status = "reading"]_vars

\* C11 witness: the chat error is showing, the reply is no longer pending, the
\* correction still is, and the response is still being read.
C11_Witness ==
  /\ error = [msg |-> "chat", delay |-> 0]
  /\ ~loading.chat
  /\ loading.correction
  /\ \E rid \in DOMAIN requests :
       requests[rid].status = "reading" /\ "reply" \in requests[rid].sent

\* C12: in the ref version, with no clearThread so far, the failure of an
\* attempt made when the retries are used up leaves the terminal error
\* showing, both loading flags clear, the retry counter at 0, no retry of that
\* Turn pending and the message list as it was; and while the terminal error
\* is showing, nothing but a submission schedules a retry or sends a request.
C12_TerminalFailure ==
  [][(variant = "ref" /\ clearedTurns = {}) =>
       /\ \A rid \in DOMAIN requests :
            (/\ reconnectAttemptsRef >= maxReconnectAttempts
             /\ (FetchFail(rid) \/ ReadError(rid)))
              => /\ error'.msg = "Connection failed"
                 /\ ~loading'.chat /\ ~loading'.correction
                 /\ reconnectAttemptsRef' = 0
                 /\ reconnectAttempts' = 0
                 /\ \A t \in timers' : t.turn # requests[rid].turn
                 /\ messages' = messages
       /\ (error.msg = "Connection failed" /\ turns' = turns)
            => /\ timers' \subseteq timers
               /\ DOMAIN requests' \subseteq DOMAIN requests]_vars

\* The position in the published stream of the event of node n, 0 if none.
PosOf(n) ==
  IF \E i \in DOMAIN outStream : outStream[i].node = n
  THEN CHOOSE i \in DOMAIN outStream : outStream[i].node = n
  ELSE 0

C14_DisallowedNoCorrection ==
  verdict = "disallowed" =>
    /\ nodeState["analyze"] = "idle"
    /\ nodeState["generate"] = "idle"
    /\ \A i \in DOMAIN records : records[i].node \notin ProceedSet
    /\ \A i \in DOMAIN outStream :
         /\ outStream[i].type # "correction"
         /\ outStream[i].node \in {"none", "divert", "synthesize"}
         /\ outStream[i].type = "chat_response"
              => outStream[i].arg = "rejection"

C14_Witness ==
  /\ verdict = "disallowed"
  /\ Terminated
  /\ PosOf("divert") # 0
  /\ outStream[PosOf("divert")].type = "chat_response"
  /\ PosOf("synthesize") # 0

\* C15: once reply generation has succeeded and analysis has failed, the Turn
\* ends with the chat_response published and complete after it, and with no
\* correction event.
C15_ReplyDespiteAnalysisFailure ==
  (nodeState["generate"] = "ok" /\ nodeState["analyze"] = "failed")
    ~> /\ Terminated
       /\ PosOf("generate") # 0
       /\ outStream[PosOf("generate")].type = "chat_response"
       /\ \A i \in DOMAIN outStream : outStream[i].type # "correction"

C15_Witness ==
  /\ Terminated
  /\ nodeState["generate"] = "ok"
  /\ nodeState["analyze"] = "failed"
  /\ PosOf("analyze") # 0
  /\ PosOf("analyze") < PosOf("generate")

\* C16: of the two nodes of the proceed set, the one whose result was recorded
\* first has its event published first, whatever the declaration order: the
\* event of the later one is never in the stream without the event of the
\* earlier one before it.
C16_FirstDoneFirstPublished ==
  \A i, j \in DOMAIN records :
    (/\ i < j
     /\ records[i].node \in ProceedSet
     /\ records[j].node \in ProceedSet
     /\ PosOf(records[j].node) # 0)
      => /\ PosOf(records[i].node) # 0
         /\ PosOf(records[i].node) < PosOf(records[j].node)

C16_Witness ==
  /\ declared = <<"generate", "analyze">>
  /\ Len(records) >= 2
  /\ records[1].node = "analyze"
  /\ records[2].node = "generate"
  /\ PosOf("analyze") # 0
  /\ PosOf("analyze") < PosOf("generate")

\* The chat state a user can see.
ChatView(s) ==
  [messages |-> s.messages, loading |-> s.loading, error |-> s.error]

\* The state after the events evs of the response of request r are
\* dispatched in order.
RECURSIVE DispatchAll(_, _, _)
DispatchAll(s, r, evs) ==
  IF evs = <<>> THEN s
  ELSE DispatchAll(Dispatch(s, r, Head(evs)), r, Tail(evs))

\* C17: for a response being read that has delivered neither its reply nor
\* its correction yet, dispatching chat_response, correction, complete and
\* dispatching correction, chat_response, complete end in the same messages
\* (order, content, attached correction), loading flags and error.
C17_OrderIndependent ==
  \A rid \in DOMAIN requests :
    (/\ requests[rid].status = "reading"
     /\ requests[rid].sent \cap {"reply", "correction", "general"} = {}
     /\ ~requests[rid].completed)
      => \A x \in Replies :
           LET r == requests[rid]
               chat == [type |-> "chat_response", arg |-> x]
               corr == [type |-> "correction", arg |-> ""]
               comp == [type |-> "complete", arg |-> ""]
           IN /\ ChatView(DispatchAll(S, r, <<chat, corr>>))
                   = ChatView(DispatchAll(S, r, <<corr, chat>>))
              /\ ChatView(DispatchAll(S, r, <<chat, corr, comp>>))
                   = ChatView(DispatchAll(S, r, <<corr, chat, comp>>))

\* Both events of one Turn have been delivered: the user message carries its
\* correction, the reply follows it, and nothing is loading.
C17_Witness ==
  \E rid \in DOMAIN requests :
    /\ requests[rid].status = "reading"
    /\ requests[rid].sent = {"reply", "correction"}
    /\ Len(messages) = 2
    /\ messages[1].role = "user" /\ messages[1].correction # <<>>
    /\ messages[2].role = "assistant"
    /\ ~loading.chat /\ ~loading.correction
    /\ error = NullError

\* C18: while the state holds a thread id, every request that is started,
\* by a submission or by a retry timer, carries that thread id.
C18_RequestsCarryThreadId ==
  [][\A rid \in DOMAIN requests' \ DOMAIN requests :
       threadId # NullThread => requests'[rid].thread_id = threadId]_vars

\* C19: once ChatProvider's mount effect has run, the thread id of the state
\* equals the value stored under 'speak_chat_thread_id' (null when absent),
\* whatever sequence of setThreadId and clearThread calls was made.
C19_ThreadIdMatchesStorage == mounted => threadId = localStorage

\* A conversation that had a thread id was cleared.
C19_Witness ==
  /\ mounted
  /\ clearedTurns # {}
  /\ threadId = NullThread
  /\ localStorage = NullThread
  /\ \E rid \in DOMAIN requests : requests[rid].thread_id = "th1"

\* C20: after clearThread and until the next submission, no step adds a
\* message, sets a thread id (in the state or in localStorage) or starts a
\* request.
C20_ClearedStaysCleared ==
  [][(clearedTurns # {} /\ clearedTurns = 1..turns /\ turns' = turns)
       => /\ messages' = <<>>
          /\ threadId' = NullThread
          /\ localStorage' = NullThread
          /\ nReq' = nReq]_vars

\* C21: in the audio version a transport failure of a Turn that has not used up
\* its retries (fetch rejects, or the read fails before the terminal event)
\* schedules a retry of the same Turn instead of surfacing the failure.
C21_AudioRetried ==
  [][variant = "audio" =>
       \A rid \in DOMAIN requests :
         (/\ FetchFail(rid) \/ (ReadError(rid) /\ ~requests[rid].completed)
          /\ nReq[requests[rid].turn] <= maxReconnectAttempts)
           => /\ \E t \in timers' : t.turn = requests[rid].turn
              /\ error'.msg # "Failed to upload audio"]_vars

\* C22: in the audio version every transport failure of a request (fetch
\* rejects, or the read fails) leaves a visible error, both loading flags
\* false and the microphone button enabled.
C22_AudioFailureEnablesInput ==
  [][variant = "audio" =>
       \A rid \in DOMAIN requests :
         (FetchFail(rid) \/ ReadError(rid))
           => /\ error' # NullError
              /\ ~loading'.chat /\ ~loading'.correction
              /\ ~isInputDisabled']_vars

\* An audio Turn failed at the transport: the placeholder message is still in
\* the list, the failure shows and nothing is loading.
C22_Witness ==
  /\ variant = "audio"
  /\ error.msg = "Failed to upload audio"
  /\ ~loading.chat /\ ~loading.correction
  /\ failures >= 1
  /\ messages # <<>>
  /\ requests = <<>>

\* C23: a transcription event replaces the content of the user message that
\* sendAudio added for the Turn of the response, keeps that message's id, role
\* and position, and changes no other message, flag, error or thread id.
C23_TranscriptionFrame ==
  [][\A rid \in DOMAIN requests : \A x \in Texts :
       Deliver(rid, [type |-> "transcription", arg |-> x])
         => /\ DOMAIN messages' = DOMAIN messages
            /\ \A i \in DOMAIN messages :
                 messages'[i] =
                   IF messages[i].turn = requests[rid].turn
                      /\ messages[i].role = "user"
                   THEN [messages[i] EXCEPT !.content = x]
                   ELSE messages[i]
            /\ UNCHANGED <<loading, error, threadId>>]_vars

\* The events of a response that carry text state.
TextEvents ==
  {[type |-> "chat_response", arg |-> x] : x \in Replies}
  \cup {[type |-> "correction", arg |-> ""], [type |-> "complete", arg |-> ""]}

\* C24: handling an audio_chunk event changes neither the messages, the
\* loading flags nor the chat error and leaves the read loop running; a step
\* of playback (decode done, decode failed, playback ended) changes no chat
\* state and no request; and while a decode is pending or after playback has
\* failed, every text event the response may carry next can still be handled.
C24_AudioNeverBlocksText ==
  /\ [][/\ \A rid \in DOMAIN requests :
            Deliver(rid, [type |-> "audio_chunk", arg |-> ""])
              => /\ UNCHANGED <<messages, loading, error>>
                 /\ rid \in DOMAIN requests'
                 /\ requests'[rid].status = "reading"
        /\ (DecodeOk \/ DecodeFail \/ PlaybackEnd)
              => UNCHANGED <<messages, loading, error, requests>>]_vars
  /\ [](\A rid \in DOMAIN requests : \A ev \in TextEvents :
          (/\ playback.chunks > 0
           /\ requests[rid].status = "reading"
           /\ CanSend(requests[rid], ev)
           /\ steps < MaxSteps)
            => ENABLED Deliver(rid, ev))

\* A playback failure (no audio context, or a decode error) is on record and
\* the response that carried the chunk has had its reply and its complete
\* handled.
C24_Witness ==
  /\ playback.error # "null"
  /\ ~loading.chat /\ ~loading.correction
  /\ error = NullError
  /\ \E rid \in DOMAIN requests :
       requests[rid].completed /\ "reply" \in requests[rid].sent
  /\ \E i \in DOMAIN messages : messages[i].role = "assistant"

C26_UnavailableOnlyWhenDegraded ==
  (view.correction # <<>> /\ view.label # "none") =>
    /\ (view.origin = "received" /\ view.correction[1].issues = <<>>)
         => view.label = "Perfect!"
    /\ view.label = "Grammar check unavailable" <=> view.origin = "degraded"

\* C27: a text that is empty or only whitespace, submitted through the message
\* input, is rejected before a Turn exists: handleSend returns without calling
\* onSend, so no message is added, no request is issued, no Turn is opened, and
\* the loading flags and the error stay as they were.
C27_BlankRejected ==
  [][(HandleSend /\ trim(inputText) = <<>>) => UNCHANGED cvars]_vars

\* The user has pressed Enter on a whitespace-only text while the input was
\* enabled and connected, and nothing was sent.
C27_Witness ==
  /\ rejected
  /\ inputText = <<" ", " ">>
  /\ ~isInputDisabled
  /\ messages = <<>>
  /\ DOMAIN requests = {}
  /\ turns = 0

\* Nothing of the recorder is pending and the button shows the microphone.
RecorderQuiet ==
  /\ ~isRecording
  /\ pendingMedia = 0
  /\ resolveTimers = <<>>
  /\ \A i \in DOMAIN mediaRecorders : mediaRecorders[i].queue = <<>>

SubmissionsOf(i) == {k \in DOMAIN sentBlobs : sentBlobs[k].session = i}

C28_AtMostOne ==
  \A i \in DOMAIN mediaRecorders : Cardinality(SubmissionsOf(i)) <= 1

C28_OwnChunks ==
  \A k \in DOMAIN sentBlobs :
    sentBlobs[k].blob = mediaRecorders[sentBlobs[k].session].recorded

C28_SettledWhenQuiet ==
  RecorderQuiet =>
    \A i \in DOMAIN mediaRecorders :
      /\ Cardinality(SubmissionsOf(i)) = 1
      /\ ~mediaRecorders[i].tracks

\* C28: each recording session produces exactly one audio submission: however
\* many stop clicks follow the click that started it, onSendAudio is called at
\* most once for it, with a blob made of the chunks recorded in that session,
\* and once nothing of the recorder is pending every session has had its
\* submission, isRecording is false and the tracks of its stream are stopped.
C28_OneSubmissionPerSession ==
  /\ C28_AtMostOne
  /\ C28_OwnChunks
  /\ C28_SettledWhenQuiet

\* disconnect() has returned and nothing has been submitted since.
Disconnected ==
  disconnectedAt # NotDisconnected /\ turns = disconnectedAt

\* C29: after disconnect() returns, the connection is closed: until the next
\* submission no event of the response in flight changes the chat state, no
\* pending retry fires, and loading.chat and loading.correction stay false.
C29_DisconnectCloses ==
  [][/\ (Disconnected /\ \E rid \in DOMAIN requests :
                           \E ev \in Events(variant) : Deliver(rid, ev))
          => UNCHANGED <<messages, loading, error, threadId>>
     /\ Disconnected => \A t \in timers : ~TimerFire(t)
     /\ (Disconnected /\ turns' = turns)
          => (~loading'.chat /\ ~loading'.correction)]_vars

\* C30: in the hook that keeps its retry count in React state, a Turn whose
\* every attempt fails is retried at most maxReconnectAttempts times, its k-th
\* retry (k = 0, 1, ...) waits reconnectBaseDelay * 2^k ms, and the
\* reconnectAttempts value returned to the UI never exceeds
\* maxReconnectAttempts.  Stated for a single Turn in a conversation that was
\* never cleared, no event of which has been delivered.
C30_StateRetryBounded ==
  (variant = "state" /\ turns = 1 /\ steps = 0 /\ clearedTurns = {}) =>
    /\ nReq[1] - 1 <= maxReconnectAttempts
    /\ \A t \in timers : t.delay = reconnectBaseDelay * Pow2(t.k)
    /\ reconnectAttempts <= maxReconnectAttempts

\* A step in which the completion handler is triggered for request rid: its
\* complete event is dispatched, or its response body ends.
CompletionTrigger(rid) ==
  \/ Deliver(rid, [type |-> "complete", arg |-> ""])
  \/ ReadDone(rid)

\* The effects of the completion handler are in place.
CompletionApplied ==
  /\ ~loading.chat
  /\ ~loading.correction
  /\ currentMessageIdRef = NullId
  /\ reconnectAttempts = 0
  /\ reconnectTimeoutRef = NullId
  /\ variant # "state" => reconnectAttemptsRef = 0

\* C31: within one request the effects of the completion handler are applied
\* exactly once: the first trigger (complete event or end of the body) leaves
\* both loading flags clear, the current-assistant-message ref and the retry
\* counter reset and no retry timer held, whatever an earlier request did to
\* the guard; a second trigger of the same request changes none of these.
C31_CompletionOnce ==
  [][\A rid \in DOMAIN requests :
       /\ (~requests[rid].completed /\ CompletionTrigger(rid))
            => CompletionApplied'
       /\ (requests[rid].completed /\ CompletionTrigger(rid))
            => UNCHANGED <<loading, currentMessageIdRef, reconnectAttempts,
                           reconnectAttemptsRef, reconnectTimeoutRef,
                           timers, isCompleteHandledRef>>]_vars

\* C32: a response body that ends cleanly without a complete event is treated
\* as a completed Turn: both loading flags are cleared and the retry counter
\* is reset, no retry is scheduled and no error is surfaced, whether or not a
\* chat_response or a correction was received in that response.
C32_CleanEndCompletes ==
  [][\A rid \in DOMAIN requests :
       (~requests[rid].completed /\ ReadDone(rid)) =>
         /\ ~loading'.chat
         /\ ~loading'.correction
         /\ reconnectAttempts' = 0
         /\ variant # "state" => reconnectAttemptsRef' = 0
         /\ timers' \subseteq timers
         /\ error' = error]_vars

\* The only Turn has ended although no event of its response was delivered and
\* no transport failure occurred: its body ended without a complete event and
\* without a reply or a correction.
C32_Witness ==
  /\ turns = 1
  /\ clearedTurns = {}
  /\ steps = 0
  /\ failures = 0
  /\ openTurns = {}
  /\ DOMAIN requests = {}
  /\ Len(messages) = 1
  /\ ~loading.chat
  /\ ~loading.correction
  /\ error = NullError

\* The (type, payload) pairs of the events of l that parse and whose type the
\* switch of version v knows, in order.
RECURSIVE DispatchableOf(_, _)
DispatchableOf(v, l) ==
  IF l = <<>> THEN <<>>
  ELSE (IF ValidJson(Head(l).payload) /\ Head(l).type \in Cases(v)
        THEN << <<<<Head(l).type>>, Head(l).payload>> >> ELSE <<>>)
       \o DispatchableOf(v, Tail(l))

C34_HistoryKeepsLocal ==
  [][(\E payload \in Histories : HistoryLoaded(payload)) =>
       /\ \A i \in DOMAIN messages :
            messages[i].turn > 0 =>
              \E j \in DOMAIN messages' : messages'[j].id = messages[i].id
       /\ lastUserMessageIdRef # NullId =>
            \E j \in DOMAIN messages' :
              messages'[j].id = lastUserMessageIdRef]_vars

\* Message m after a change of at most its field content.
SameButContent(m, n) ==
  /\ n.id = m.id
  /\ n.role = m.role
  /\ n.correction = m.correction
  /\ n.turn = m.turn

\* Message m after a change of at most its field correction.
SameButCorrection(m, n) ==
  /\ n.id = m.id
  /\ n.role = m.role
  /\ n.content = m.content
  /\ n.turn = m.turn

\* C35: under any sequence of ADD_MESSAGE, UPDATE_MESSAGE_CONTENT and
\* ATTACH_CORRECTION the message list only grows at its end: ADD_MESSAGE
\* appends one message and keeps the list it found as a prefix; the other two
\* keep length and order, change only the content, or only the correction, of
\* the message with the given id, and change nothing when no message has it.
C35_ListOnlyGrows ==
  [][/\ (\E role \in {"user", "assistant"} : AddMessage(role)) =>
          /\ Len(messages') = Len(messages) + 1
          /\ SubSeq(messages', 1, Len(messages)) = messages
     /\ \A messageId \in ReducerIds :
          UpdateMessageContent(messageId) =>
            /\ Len(messages') = Len(messages)
            /\ \A i \in DOMAIN messages :
                 IF messages[i].id = messageId
                 THEN SameButContent(messages[i], messages'[i])
                 ELSE messages'[i] = messages[i]
     /\ \A messageId \in ReducerIds :
          AttachCorrection(messageId) =>
            /\ Len(messages') = Len(messages)
            /\ \A i \in DOMAIN messages :
                 IF messages[i].id = messageId
                 THEN SameButCorrection(messages[i], messages'[i])
                 ELSE messages'[i] = messages[i]]_vars

\* Three messages were added, the second had its content replaced and the
\* first a correction attached, and they are still in the order of their ids.
C35_Witness ==
  /\ Len(messages) = MaxMessages
  /\ \A i \in DOMAIN messages : messages[i].id = i
  /\ messages[2].content = "b"
  /\ messages[1].correction = <<ReducerCorrection>>
  /\ messages[1].content = "a"
  /\ messages[3].correction = <<>>

\* C36: whenever an audio Turn has ended (complete handled, response body
\* ended, or failure surfaced), the user message sendAudio created for it no
\* longer shows the placeholder text.
C36_PlaceholderReplaced ==
  variant = "audio" =>
    \A t \in 1..turns :
      (t \notin openTurns /\ t \notin clearedTurns) =>
        \A i \in UserMessagesOf(t) : messages[i].content # Placeholder

\* The source nodes that are playing.
Playing == {i \in DOMAIN sourceNodes : sourceNodes[i] = "playing"}

\* C37: in useAudioPlayback at most one audio source is playing at any time,
\* for every interleaving of playAudio and stopAudio calls, a second playAudio
\* during the decoding of the first included: isPlaying is true exactly when
\* a started source that has not ended is playing, and stopAudio leaves
\* nothing playing.
C37_OneSourcePlaying ==
  [][/\ Cardinality(Playing') <= 1
     /\ playback'.isPlaying <=> Playing' # {}
     /\ StopAudio => Playing' = {}]_vars

PendingSpeechTimers ==
  {t \in DOMAIN speechTimers : speechTimers[t].state = "pending"}

\* While isRecording is true a timeout timer is pending.
C38_TimerWhileRecording == srIsRecording => PendingSpeechTimers # {}

\* C38: useSpeechRecognition stops recording by itself: in every state where
\* isRecording is true a timeout timer is pending, whatever result events
\* (results with an empty transcript included) came before, and so recording
\* that has started is always followed by a state where isRecording is false.
C38_StopsByItself ==
  /\ []C38_TimerWhileRecording
  /\ srIsRecording ~> ~srIsRecording

====
